---- MODULE Spec2Model ----
(***************************************************************************)
(* The audit validator of the PLC client (src/src/remote/plc/audit.rs),    *)
(* run on audit logs assembled the way the test builder of                  *)
(* src/src/remote/plc/testing.rs assembles them.                            *)
(*                                                                         *)
(* Cryptography is idealised: a signature verifies under exactly the key   *)
(* that made it, and SHA-256 is collision free, so the CID (and the DID)   *)
(* of a signed operation is a value that determines the operation.         *)
(* Times are whole seconds since the Unix epoch.                            *)
(*                                                                         *)
(* The mirror (src/src/mirror/db.rs, src/src/mirror/api.rs and             *)
(* src/src/commands/mirror.rs): its store, the importer that fills it from *)
(* the upstream registry, the reads that serve it and the audit sweep.     *)
(***************************************************************************)
EXTENDS Integers, Sequences, FiniteSets, TLC

VARIABLES
    did,               \* AuditLog.did: the DID the log claims to describe
    entries,           \* AuditLog.entries, in list order
    pc,                \* "build" ("edited"), then validate's position: "loop", "done"
    i,                 \* number of entries the loop of validate has processed
    errors,            \* validate's local `errors`
    active_graph,      \* validate's local `active_graph`
    prev,              \* the local `prev` of the last loop iteration
    signer_authority,  \* the local `signer_authority` of the last iteration
    result             \* what validate returned: "Ok" or "Err" ("none" before)

VARIABLES
    db,                \* the mirror's store, as committed
    tx,                \* the Db::import in progress: its transaction and locals
    import_result,     \* what the last Db::import returned
    after,             \* RunMirror::run, the importer's cursor `after`
    imported,          \* the importer's local `imported`
    importer,          \* the importer task's position
    reader,            \* the read in progress (a Db method called by a task)
    response,          \* what the last read returned, and the HTTP status
    auditor,           \* the auditor task of AuditMirror::run
    main_task          \* the task of run() that waits for exit and closes the pool

audit_vars == <<did, entries, pc, i, errors, active_graph, prev, signer_authority, result>>

mirror_vars ==
    <<db, tx, import_result, after, imported, importer, reader, response, auditor, main_task>>

vars == <<audit_vars, mirror_vars>>

(***************************************************************************)
(* Bounds and program constants.                                           *)
(***************************************************************************)
MaxLen == 3

RECOVERY_WINDOW == 259200

MALLEABILITY_PREVENTED == 1701370214

(***************************************************************************)
(* Option<T> is a sequence of length 0 (None) or 1 (Some).                 *)
(***************************************************************************)
None == <<>>

Some(x) == <<x>>

IsSome(o) == Len(o) = 1

(***************************************************************************)
(* The mirror before anything has run: the tables of CREATE_DATABASES,     *)
(* empty, and no task started.                                             *)
(***************************************************************************)
EmptyDb ==
    [identity |-> <<>>, key |-> <<>>, atproto_pds |-> <<>>, plc_log |-> <<>>,
     rotation_keys |-> {}, verification_methods |-> {}, services |-> {}]

NoRead == [pc |-> "idle"]

NoSweep == [pc |-> "idle"]

NotRunning == [pc |-> "idle"]

MirrorInit ==
    /\ db = EmptyDb
    /\ tx = None
    /\ import_result = None
    /\ after = None
    /\ imported = 0
    /\ importer = "idle"
    /\ reader = NoRead
    /\ response = None
    /\ auditor = NoSweep
    /\ main_task = NotRunning

(***************************************************************************)
(* Keys.  The builder's identity has two rotation keys and an atproto      *)
(* signing key; "k2" is a freshly generated rotation key.  "nokey" signs   *)
(* the signatures that verify under no key at all.                         *)
(***************************************************************************)
NoKey == "nokey"

InitialRotation == <<"k0", "k1">>

SigningKey == "ks"

(***************************************************************************)
(* Operations.  One record shape for the three variants; a variant leaves  *)
(* the fields it does not have at their empty value.                       *)
(*   sig.text: the base64url text is "unpadded", "padded" (trailing '=')   *)
(*   or "garbled" (not base64url at all); sig.signer and sig.high_s        *)
(*   describe the signature bytes the text encodes.                        *)
(***************************************************************************)
ChangeOp(rotation_keys, signing_key, payload, prev_cid, sig) ==
    [type |-> "plc_operation", prev |-> prev_cid, rotation_keys |-> rotation_keys,
     signing_key |-> signing_key, recovery_key |-> NoKey, payload |-> payload,
     sig |-> sig]

TombstoneOp(prev_cid, sig) ==
    [type |-> "plc_tombstone", prev |-> Some(prev_cid), rotation_keys |-> <<>>,
     signing_key |-> NoKey, recovery_key |-> NoKey, payload |-> 0, sig |-> sig]

LegacyCreateOp(signing_key, recovery_key, payload, sig) ==
    [type |-> "create", prev |-> None, rotation_keys |-> <<>>,
     signing_key |-> signing_key, recovery_key |-> recovery_key,
     payload |-> payload, sig |-> sig]

\* The DAG-CBOR bytes of the operation with its signature.
signed_bytes(op) == op

\* CIDv1 (dag-cbor, SHA-256) over the signed bytes.
cid(op) == [codec |-> 113, digest |-> signed_bytes(op)]

\* "did:plc:" followed by the truncated base32 SHA-256 of the signed bytes.
derive_did(bytes) == [method |-> "plc", digest |-> bytes]

rotation_keys(op) ==
    IF op.type = "create" THEN <<op.recovery_key, op.signing_key>>
    ELSE op.rotation_keys


(***************************************************************************)
(* Audit errors (enum AuditError).                                         *)
(***************************************************************************)
AuditLogEmpty == [kind |-> "AuditLogEmpty"]

EntryCidInvalid(c, actual) == [kind |-> "EntryCidInvalid", cid |-> c, actual |-> actual]

EntryCreatedBeforePrev(c, p) == [kind |-> "EntryCreatedBeforePrev", cid |-> c, prev |-> p]

EntryDidMismatch(c) == [kind |-> "EntryDidMismatch", cid |-> c]

EntryIncorrectlyActive(c) == [kind |-> "EntryIncorrectlyActive", cid |-> c]

EntryIncorrectlyNullified(c) == [kind |-> "EntryIncorrectlyNullified", cid |-> c]

InvalidSignatureEncoding(c) == [kind |-> "InvalidSignatureEncoding", cid |-> c]

GenesisOperationInvalidDid(expected, actual) ==
    [kind |-> "GenesisOperationInvalidDid", expected |-> expected, actual |-> actual]

GenesisOperationNotCreate == [kind |-> "GenesisOperationNotCreate"]

MultipleActiveChildren(c, first) ==
    [kind |-> "MultipleActiveChildren", cid |-> c, first |-> first]

NonGenesisCreate(c) == [kind |-> "NonGenesisCreate", cid |-> c]

OperationAfterDeactivation(c, p) ==
    [kind |-> "OperationAfterDeactivation", cid |-> c, prev |-> p]

PrevMissing(p) == [kind |-> "PrevMissing", prev |-> p]

PrevReferencesFuture(c, p) == [kind |-> "PrevReferencesFuture", cid |-> c, prev |-> p]

TrustViolation(c) == [kind |-> "TrustViolation", cid |-> c]

(***************************************************************************)
(* LogEntry::validate_self: the checks that need no other entry.           *)
(***************************************************************************)
validate_self_first_only(entry, claimed) ==
    IF entry.cid # cid(entry.operation)
        THEN <<EntryCidInvalid(entry.cid, cid(entry.operation))>>
    ELSE IF entry.did # claimed THEN <<EntryDidMismatch(entry.cid)>>
    ELSE <<>>

validate_self(entry, claimed) ==
    (IF entry.cid # cid(entry.operation)
        THEN <<EntryCidInvalid(entry.cid, cid(entry.operation))>> ELSE <<>>)
    \o (IF entry.did # claimed THEN <<EntryDidMismatch(entry.cid)>> ELSE <<>>)

(***************************************************************************)
(* Signature decoding and verification.                                    *)
(***************************************************************************)
allow_malleable(entry) == entry.created_at < MALLEABILITY_PREVENTED

\* str::trim_end_matches('='): a padded text loses its padding.
trim_end_matches(sig) ==
    IF sig.text = "padded" THEN [sig EXCEPT !.text = "unpadded"] ELSE sig

\* The text handed to the decoder.
encoded_sig(entry) ==
    IF allow_malleable(entry) THEN trim_end_matches(entry.operation.sig)
    ELSE entry.operation.sig

\* Base64UrlUnpadded::decode_vec: the signature bytes, or None for a text
\* that is padded or is not base64url.
decode_vec(sig) ==
    IF sig.text = "unpadded"
        THEN Some([signer |-> sig.signer, high_s |-> sig.high_s])
        ELSE None

\* Verifier::new(allow).verify: a high-S signature passes only when
\* malleable signatures are allowed.
verify(allow, key, signature) ==
    /\ signature.signer = key
    /\ (allow \/ ~signature.high_s)

check_sig(entry, signature, key) ==
    IF IsSome(signature) THEN verify(allow_malleable(entry), key, signature[1])
    ELSE TRUE

find_signer_last(entry, signature, keys) ==
    LET hits == {k \in 1..Len(keys) : check_sig(entry, signature, keys[k])}
    IN  IF hits = {} THEN None
        ELSE Some((CHOOSE k \in hits : \A h \in hits : k >= h) - 1)

\* keys.enumerate().find(check_sig): the first (0-based) index that passes.
find_signer(entry, signature, keys) ==
    LET hits == {k \in 1..Len(keys) : check_sig(entry, signature, keys[k])}
    IN  IF hits = {} THEN None
        ELSE Some((CHOOSE k \in hits : \A h \in hits : k <= h) - 1)

check_signed(entry, signed) ==
    IF IsSome(signed) THEN [ok |-> TRUE, index |-> signed[1]]
    ELSE [ok |-> FALSE, err |-> TrustViolation(entry.cid)]

signature_valid_tombstone_has_no_keys(entry, p, signature) ==
    IF ~IsSome(p)
        THEN check_signed(entry,
                 find_signer(entry, signature, rotation_keys(entry.operation)))
    ELSE check_signed(entry,
             find_signer(entry, signature, rotation_keys(p[1].operation)))

signature_valid_requires_decodable_prev(entry, p, signature) ==
    IF ~IsSome(p)
        THEN check_signed(entry,
                 find_signer(entry, signature, rotation_keys(entry.operation)))
    ELSE IF p[1].operation.type = "plc_tombstone"
        THEN [ok |-> FALSE, err |-> OperationAfterDeactivation(entry.cid, p[1].cid)]
    ELSE IF ~IsSome(decode_vec(encoded_sig(p[1])))
        THEN [ok |-> FALSE, err |-> TrustViolation(entry.cid)]
    ELSE check_signed(entry,
             find_signer(entry, signature, rotation_keys(p[1].operation)))

\* The match on (operation, prev) that decides `signature_valid`.
signature_valid(entry, p, signature) ==
    IF ~IsSome(p)
        THEN check_signed(entry,
                 find_signer(entry, signature, rotation_keys(entry.operation)))
    ELSE IF p[1].operation.type = "plc_tombstone"
        THEN [ok |-> FALSE, err |-> OperationAfterDeactivation(entry.cid, p[1].cid)]
    ELSE check_signed(entry,
             find_signer(entry, signature, rotation_keys(p[1].operation)))

(***************************************************************************)
(* LogEntry::validate_with_prev: p is the located prev entry, if any.      *)
(* Returns the errors raised and the signer's authority (an Option).       *)
(***************************************************************************)
validate_with_prev_any_time(entry, p) ==
    LET signature == decode_vec(encoded_sig(entry))
        valid     == signature_valid(entry, p, signature)
    IN  [errors |->
             (IF IsSome(signature) THEN <<>>
              ELSE <<InvalidSignatureEncoding(entry.cid)>>)
             \o (IF valid.ok THEN <<>> ELSE <<valid.err>>),
         signer_authority |-> IF valid.ok THEN Some(valid.index) ELSE None]

validate_with_prev_strictly_later(entry, p) ==
    LET signature == decode_vec(encoded_sig(entry))
        valid     == signature_valid(entry, p, signature)
    IN  [errors |->
             (IF IsSome(signature) THEN <<>>
              ELSE <<InvalidSignatureEncoding(entry.cid)>>)
             \o (IF valid.ok THEN <<>> ELSE <<valid.err>>)
             \o (IF IsSome(p) /\ entry.created_at <= p[1].created_at
                    THEN <<EntryCreatedBeforePrev(entry.cid, p[1].cid)>>
                    ELSE <<>>),
         signer_authority |-> IF valid.ok THEN Some(valid.index) ELSE None]

validate_with_prev(entry, p) ==
    LET signature == decode_vec(encoded_sig(entry))
        valid     == signature_valid(entry, p, signature)
    IN  [errors |->
             (IF IsSome(signature) THEN <<>>
              ELSE <<InvalidSignatureEncoding(entry.cid)>>)
             \o (IF valid.ok THEN <<>> ELSE <<valid.err>>)
             \o (IF IsSome(p) /\ entry.created_at < p[1].created_at
                    THEN <<EntryCreatedBeforePrev(entry.cid, p[1].cid)>>
                    ELSE <<>>),
         signer_authority |-> IF valid.ok THEN Some(valid.index) ELSE None]

(***************************************************************************)
(* LogEntry::nullifies: does `entry` supersede the earlier sibling?        *)
(***************************************************************************)
submitted_in_time_strict(entry, earlier_entry) ==
    entry.created_at < earlier_entry.created_at + RECOVERY_WINDOW

submitted_in_time(entry, earlier_entry) ==
    entry.created_at <= earlier_entry.created_at + RECOVERY_WINDOW

current_is_higher_authority_or_equal(authority, earlier_authority) ==
    IF IsSome(authority) /\ IsSome(earlier_authority)
        THEN authority[1] <= earlier_authority[1]
    ELSE IF ~IsSome(authority) THEN FALSE
    ELSE TRUE

current_is_higher_authority_unknown_is_zero(authority, earlier_authority) ==
    (IF IsSome(authority) THEN authority[1] ELSE 0)
        < (IF IsSome(earlier_authority) THEN earlier_authority[1] ELSE 0)

current_is_higher_authority(authority, earlier_authority) ==
    IF IsSome(authority) /\ IsSome(earlier_authority)
        THEN authority[1] < earlier_authority[1]
    ELSE IF ~IsSome(authority) THEN FALSE
    ELSE TRUE

nullifies(entry, authority, earlier_entry, earlier_authority) ==
    /\ submitted_in_time(entry, earlier_entry)
    /\ current_is_higher_authority(authority, earlier_authority)

(***************************************************************************)
(* AuditLog::validate, the genesis check (before the loop).                *)
(***************************************************************************)
validate_did_swapped(entry, claimed) ==
    IF derive_did(signed_bytes(entry.operation)) # claimed
        THEN <<GenesisOperationInvalidDid(derive_did(signed_bytes(entry.operation)),
                                          claimed)>>
        ELSE <<>>

validate_did(entry, claimed) ==
    IF derive_did(signed_bytes(entry.operation)) # claimed
        THEN <<GenesisOperationInvalidDid(claimed,
                   derive_did(signed_bytes(entry.operation)))>>
        ELSE <<>>

genesis_errors(log, claimed) ==
    IF log = <<>> THEN <<AuditLogEmpty>>
    ELSE IF log[1].operation.type = "plc_operation" /\ ~IsSome(log[1].operation.prev)
        THEN validate_did(log[1], claimed)
    ELSE IF log[1].operation.type = "create"
        THEN validate_did(log[1], claimed)
    ELSE <<GenesisOperationNotCreate>>

(***************************************************************************)
(* find_prev for the entry at list position n (1-based): `past` is the     *)
(* entries before n, `future` is entry n and the entries after it.         *)
(* Entries are referred to by their list position.                         *)
(***************************************************************************)
find_prev_by_recomputed_cid(log, n, c) ==
    LET past   == {j \in 1..(n - 1) : cid(log[j].operation) = c}
        future == {j \in n..Len(log) : cid(log[j].operation) = c}
    IN  IF past # {}
            THEN [ok |-> TRUE, value |-> Some(CHOOSE j \in past : \A k \in past : j <= k)]
        ELSE IF future # {}
            THEN [ok |-> FALSE, err |-> PrevReferencesFuture(log[n].cid, c)]
        ELSE [ok |-> FALSE, err |-> PrevMissing(c)]

find_prev_anywhere(log, n, c) ==
    LET past   == {j \in 1..Len(log) : log[j].cid = c}
        future == {j \in n..Len(log) : log[j].cid = c}
    IN  IF past # {}
            THEN [ok |-> TRUE, value |-> Some(CHOOSE j \in past : \A k \in past : j <= k)]
        ELSE IF future # {}
            THEN [ok |-> FALSE, err |-> PrevReferencesFuture(log[n].cid, c)]
        ELSE [ok |-> FALSE, err |-> PrevMissing(c)]

find_prev_missing_when_later(log, n, c) ==
    LET past == {j \in 1..(n - 1) : log[j].cid = c}
    IN  IF past # {}
            THEN [ok |-> TRUE, value |-> Some(CHOOSE j \in past : \A k \in past : j <= k)]
        ELSE [ok |-> FALSE, err |-> PrevMissing(c)]

find_prev(log, n, c) ==
    LET past   == {j \in 1..(n - 1) : log[j].cid = c}
        future == {j \in n..Len(log) : log[j].cid = c}
    IN  IF past # {}
            THEN [ok |-> TRUE, value |-> Some(CHOOSE j \in past : \A k \in past : j <= k)]
        ELSE IF future # {}
            THEN [ok |-> FALSE, err |-> PrevReferencesFuture(log[n].cid, c)]
        ELSE [ok |-> FALSE, err |-> PrevMissing(c)]

\* The match on the operation that computes the local `prev`.
locate_prev(log, n) ==
    IF log[n].operation.type = "create" THEN [ok |-> TRUE, value |-> None]
    ELSE IF IsSome(log[n].operation.prev)
        THEN find_prev(log, n, log[n].operation.prev[1])
    ELSE [ok |-> TRUE, value |-> None]

(***************************************************************************)
(* The active graph: prev cid -> (active_child, nullified_children), each  *)
(* child an (entry position, signer authority) pair.                       *)
(***************************************************************************)
EmptyGraph == [c \in {} |-> 0]

EmptyNode == [active_child |-> None, nullified_children |-> <<>>]

Child(n, authority) == [entry |-> n, authority |-> authority]

RemoveAt(seq, k) == SubSeq(seq, 1, k - 1) \o SubSeq(seq, k + 1, Len(seq))

\* The loop `for i in (0..nullified_children.len()).rev()`: k runs from the
\* last pending child down to the first.
check_nullified_children_keeps_all(log, n, authority, children, k, incorrectly_active) ==
    [children |-> children,
     incorrectly_active |->
         \E j \in 1..k : ~nullifies(log[n], authority,
                                    log[children[j].entry], children[j].authority)]

RECURSIVE check_nullified_children(_, _, _, _, _, _)
check_nullified_children(log, n, authority, children, k, incorrectly_active) ==
    IF k = 0 THEN [children |-> children, incorrectly_active |-> incorrectly_active]
    ELSE IF nullifies(log[n], authority,
                      log[children[k].entry], children[k].authority)
        THEN check_nullified_children(log, n, authority, RemoveAt(children, k),
                                      k - 1, incorrectly_active)
    ELSE check_nullified_children(log, n, authority, children, k - 1, TRUE)

check_nullification_defers_nullified(log, n, p, authority, node) ==
    IF log[n].nullified THEN
        IF ~log[p].nullified
            THEN [node |-> [node EXCEPT !.nullified_children =
                                Append(@, Child(n, authority))],
                  errors |-> <<>>]
        ELSE [node |-> node, errors |-> <<>>]
    ELSE IF log[p].nullified THEN
        [node |-> node, errors |-> <<EntryIncorrectlyActive(log[n].cid)>>]
    ELSE IF IsSome(node.active_child) THEN
        LET earlier == node.active_child[1]
        IN  IF nullifies(log[n], authority, log[earlier.entry], earlier.authority)
                THEN [node |-> [node EXCEPT !.active_child = Some(Child(n, authority))],
                      errors |-> <<EntryIncorrectlyActive(log[earlier.entry].cid)>>]
                ELSE [node |-> node,
                      errors |-> <<MultipleActiveChildren(log[n].cid,
                                                          log[earlier.entry].cid)>>]
    ELSE
        LET r == check_nullified_children(log, n, authority, node.nullified_children,
                                          Len(node.nullified_children), FALSE)
        IN  [node |-> [active_child |-> Some(Child(n, authority)),
                       nullified_children |-> r.children],
             errors |-> IF r.incorrectly_active
                            THEN <<EntryIncorrectlyActive(log[n].cid)>> ELSE <<>>]

check_nullification_tracks_descendants(log, n, p, authority, node) ==
    IF log[n].nullified THEN
        IF IsSome(node.active_child)
            THEN [node |-> node,
                  errors |-> IF log[p].nullified THEN <<>>
                             ELSE <<EntryIncorrectlyNullified(log[n].cid)>>]
            ELSE [node |-> [node EXCEPT !.nullified_children =
                                Append(@, Child(n, authority))],
                  errors |-> <<>>]
    ELSE IF log[p].nullified THEN
        [node |-> node, errors |-> <<EntryIncorrectlyActive(log[n].cid)>>]
    ELSE IF IsSome(node.active_child) THEN
        LET earlier == node.active_child[1]
        IN  IF nullifies(log[n], authority, log[earlier.entry], earlier.authority)
                THEN [node |-> [node EXCEPT !.active_child = Some(Child(n, authority))],
                      errors |-> <<EntryIncorrectlyActive(log[earlier.entry].cid)>>]
                ELSE [node |-> node,
                      errors |-> <<MultipleActiveChildren(log[n].cid,
                                                          log[earlier.entry].cid)>>]
    ELSE
        LET r == check_nullified_children(log, n, authority, node.nullified_children,
                                          Len(node.nullified_children), FALSE)
        IN  [node |-> [active_child |-> Some(Child(n, authority)),
                       nullified_children |-> r.children],
             errors |-> IF r.incorrectly_active
                            THEN <<EntryIncorrectlyActive(log[n].cid)>> ELSE <<>>]

check_nullification_allows_siblings(log, n, p, authority, node) ==
    IF log[n].nullified THEN
        IF ~log[p].nullified THEN
            IF IsSome(node.active_child)
                THEN [node |-> node,
                      errors |-> <<EntryIncorrectlyNullified(log[n].cid)>>]
                ELSE [node |-> [node EXCEPT !.nullified_children =
                                    Append(@, Child(n, authority))],
                      errors |-> <<>>]
        ELSE [node |-> node, errors |-> <<>>]
    ELSE IF log[p].nullified THEN
        [node |-> node, errors |-> <<EntryIncorrectlyActive(log[n].cid)>>]
    ELSE IF IsSome(node.active_child) THEN
        LET earlier == node.active_child[1]
        IN  IF nullifies(log[n], authority, log[earlier.entry], earlier.authority)
                THEN [node |-> [node EXCEPT !.active_child = Some(Child(n, authority))],
                      errors |-> <<EntryIncorrectlyActive(log[earlier.entry].cid)>>]
                ELSE [node |-> node, errors |-> <<>>]
    ELSE
        LET r == check_nullified_children(log, n, authority, node.nullified_children,
                                          Len(node.nullified_children), FALSE)
        IN  [node |-> [active_child |-> Some(Child(n, authority)),
                       nullified_children |-> r.children],
             errors |-> IF r.incorrectly_active
                            THEN <<EntryIncorrectlyActive(log[n].cid)>> ELSE <<>>]

\* The nullification checks for entry n with located prev p (both list
\* positions) on the node of p's cid.  Returns the node and the errors.
check_nullification(log, n, p, authority, node) ==
    IF log[n].nullified THEN
        IF ~log[p].nullified THEN
            IF IsSome(node.active_child)
                THEN [node |-> node,
                      errors |-> <<EntryIncorrectlyNullified(log[n].cid)>>]
                ELSE [node |-> [node EXCEPT !.nullified_children =
                                    Append(@, Child(n, authority))],
                      errors |-> <<>>]
        ELSE [node |-> node, errors |-> <<>>]
    ELSE IF log[p].nullified THEN
        [node |-> node, errors |-> <<EntryIncorrectlyActive(log[n].cid)>>]
    ELSE IF IsSome(node.active_child) THEN
        LET earlier == node.active_child[1]
        IN  IF nullifies(log[n], authority, log[earlier.entry], earlier.authority)
                THEN [node |-> [node EXCEPT !.active_child = Some(Child(n, authority))],
                      errors |-> <<EntryIncorrectlyActive(log[earlier.entry].cid)>>]
                ELSE [node |-> node,
                      errors |-> <<MultipleActiveChildren(log[n].cid,
                                                          log[earlier.entry].cid)>>]
    ELSE
        LET r == check_nullified_children(log, n, authority, node.nullified_children,
                                          Len(node.nullified_children), FALSE)
        IN  [node |-> [active_child |-> Some(Child(n, authority)),
                       nullified_children |-> r.children],
             errors |-> IF r.incorrectly_active
                            THEN <<EntryIncorrectlyActive(log[n].cid)>> ELSE <<>>]

check_create_first_only(log, n) ==
    IF n # 1 THEN <<NonGenesisCreate(log[n].cid)>>
    ELSE IF log[n].nullified THEN <<EntryIncorrectlyNullified(log[n].cid)>>
    ELSE <<>>

\* The checks on an entry that declares no prev.
check_create(log, n) ==
    (IF n # 1 THEN <<NonGenesisCreate(log[n].cid)>> ELSE <<>>)
    \o (IF log[n].nullified THEN <<EntryIncorrectlyNullified(log[n].cid)>> ELSE <<>>)

\* active_graph.entry(&prev.cid).or_insert_with(|| (None, vec![]))
node_of(graph, c) == IF c \in DOMAIN graph THEN graph[c] ELSE EmptyNode

with_node(graph, c, node) ==
    [k \in (DOMAIN graph) \cup {c} |-> IF k = c THEN node ELSE graph[k]]

(***************************************************************************)
(* One iteration of the loop of validate, for the entry at position n.     *)
(* Returns the errors it pushes, the graph, and the locals `prev` and      *)
(* `signer_authority` (None when the iteration never computed them).       *)
(***************************************************************************)
validate_entry(log, claimed, graph, n) ==
    LET self    == validate_self(log[n], claimed)
        located == locate_prev(log, n)
    IN  IF ~located.ok
            THEN [errors |-> self \o <<located.err>>, graph |-> graph,
                  prev |-> located, signer_authority |-> None]
        ELSE
            LET p   == located.value
                res == validate_with_prev(log[n],
                           IF IsSome(p) THEN Some(log[p[1]]) ELSE None)
            IN  IF IsSome(p)
                    THEN LET c == log[p[1]].cid
                             g == check_nullification(log, n, p[1],
                                      res.signer_authority, node_of(graph, c))
                         IN  [errors |-> self \o res.errors \o g.errors,
                              graph |-> with_node(graph, c, g.node),
                              prev |-> located,
                              signer_authority |-> res.signer_authority]
                    ELSE [errors |-> self \o res.errors \o check_create(log, n),
                          graph |-> graph,
                          prev |-> located,
                          signer_authority |-> res.signer_authority]

\* The errors of the final loop over active_graph, visiting its keys in the
\* order `order` (a sequence of cids).
\* The inner loop of the final loop, were it to go through the children
\* from the last to the first.
children_errors_reversed(log, children) ==
    [k \in 1..Len(children) |->
        EntryIncorrectlyNullified(log[children[Len(children) + 1 - k].entry].cid)]

RECURSIVE children_errors(_, _)
children_errors(log, children) ==
    IF children = <<>> THEN <<>>
    ELSE <<EntryIncorrectlyNullified(log[Head(children).entry].cid)>>
         \o children_errors(log, Tail(children))

\* The loop after the main loop, were it to report nothing.
settle_errors_reports_nothing(log, graph, order) == <<>>

settle_errors_first_parent_only(log, graph, order) ==
    IF order = <<>> THEN <<>>
    ELSE children_errors(log, graph[Head(order)].nullified_children)

RECURSIVE settle_errors(_, _, _)
settle_errors(log, graph, order) ==
    IF order = <<>> THEN <<>>
    ELSE children_errors(log, graph[Head(order)].nullified_children)
         \o settle_errors(log, graph, Tail(order))

\* Every order in which a HashMap may yield the keys in S.
RECURSIVE Orders(_)
Orders(S) ==
    IF S = {} THEN {<<>>}
    ELSE UNION {{<<c>> \o o : o \in Orders(S \ {c})} : c \in S}

(***************************************************************************)
(* The log builder (TestLog).  A builder step draws the new entry from a   *)
(* set of variants, each a record                                          *)
(*   rotation  the rotation keys the operation declares                    *)
(*   signer    the key that signs it (NoKey: a signature no key verifies)  *)
(*   time      created_at                                                  *)
(*   flags     a subset of                                                 *)
(*               "nullified"  the entry is marked nullified                *)
(*               "padded"     the signature text has trailing '='          *)
(*               "garbled"    the signature text is not base64url          *)
(*               "high_s"     the signature is in high-S form              *)
(*               "bogus_cid"  the entry claims a cid of no operation       *)
(*               "other_did"  the entry carries another DID                *)
(* and its prev from the kinds "last" (the default), "op" (with_prev_op),  *)
(* "cid" (with_prev_cid of a cid no operation has), "none" (without_prev). *)
(***************************************************************************)
V(rotation, signer, time, flags) ==
    [rotation |-> rotation, signer |-> signer, time |-> time, flags |-> flags]

Sig(signer, text, high_s) == [signer |-> signer, text |-> text, high_s |-> high_s]

\* add_signature
add_signature(v) ==
    Sig(v.signer,
        IF "garbled" \in v.flags THEN "garbled"
        ELSE IF "padded" \in v.flags THEN "padded" ELSE "unpadded",
        "high_s" \in v.flags)

NonexistentOp == ChangeOp(<<>>, NoKey, -1, None, Sig(NoKey, "unpadded", FALSE))

NonexistentCid == cid(NonexistentOp)

EmptyLogDid == derive_did(signed_bytes(NonexistentOp))

ForeignDid ==
    derive_did(signed_bytes(TombstoneOp(NonexistentCid, Sig(NoKey, "unpadded", FALSE))))

\* build_entry, and the faults injected into the entry it returns.
build_entry(log_did, operation, v) ==
    [did |-> IF "other_did" \in v.flags THEN ForeignDid ELSE log_did,
     operation |-> operation,
     cid |-> IF "bogus_cid" \in v.flags THEN NonexistentCid ELSE cid(operation),
     nullified |-> "nullified" \in v.flags,
     created_at |-> v.time]

PrevChoices(kinds) ==
    (IF "last" \in kinds THEN {Some(entries[Len(entries)].cid)} ELSE {})
    \cup (IF "op" \in kinds
             THEN {Some(cid(entries[j].operation)) : j \in 1..Len(entries)} ELSE {})
    \cup (IF "cid" \in kinds THEN {Some(NonexistentCid)} ELSE {})
    \cup (IF "none" \in kinds THEN {None} ELSE {})

Idle ==
    /\ pc = "build"
    /\ UNCHANGED <<pc, i, errors, active_graph, prev, signer_authority, result>>
    /\ UNCHANGED mirror_vars

\* TestLog::with_genesis
WithGenesis(variants) ==
    /\ Idle
    /\ entries = <<>>
    /\ MaxLen > 0
    /\ \E v \in variants :
          LET operation == ChangeOp(v.rotation, SigningKey, 0, None, add_signature(v))
          IN  /\ did' = derive_did(signed_bytes(operation))
              /\ entries' = <<build_entry(did', operation, v)>>

\* TestLog::with_legacy_genesis
WithLegacyGenesis(variants) ==
    /\ Idle
    /\ entries = <<>>
    /\ MaxLen > 0
    /\ \E v \in variants :
          LET operation == LegacyCreateOp(InitialRotation[2], InitialRotation[1], 0,
                                          add_signature(v))
          IN  /\ did' = derive_did(signed_bytes(operation))
              /\ entries' = <<build_entry(did', operation, v)>>

\* TestLog::apply_update
ApplyUpdate(kinds, variants) ==
    /\ Idle
    /\ entries # <<>>
    /\ Len(entries) < MaxLen
    /\ \E p \in PrevChoices(kinds), v \in variants :
          LET operation == ChangeOp(v.rotation, SigningKey, Len(entries), p,
                                    add_signature(v))
          IN  /\ entries' = Append(entries, build_entry(did, operation, v))
              /\ UNCHANGED did

\* TestLog::apply_tombstone
ApplyTombstone(kinds, variants) ==
    /\ Idle
    /\ entries # <<>>
    /\ Len(entries) < MaxLen
    /\ \E p \in PrevChoices(kinds \ {"none"}), v \in variants :
          LET operation == TombstoneOp(p[1], add_signature(v))
          IN  /\ entries' = Append(entries, build_entry(did, operation, v))
              /\ UNCHANGED did

(***************************************************************************)
(* AuditLog::validate on the log built so far.                             *)
(***************************************************************************)
ValidateGenesis ==
    /\ pc \in {"build", "edited"}
    /\ pc' = "loop"
    /\ i' = 0
    /\ errors' = genesis_errors(entries, did)
    /\ active_graph' = EmptyGraph
    /\ UNCHANGED <<did, entries, prev, signer_authority, result>>
    /\ UNCHANGED mirror_vars

ValidateEntry ==
    /\ pc = "loop"
    /\ i < Len(entries)
    /\ LET r == validate_entry(entries, did, active_graph, i + 1)
       IN  /\ errors' = errors \o r.errors
           /\ active_graph' = r.graph
           /\ prev' = r.prev
           /\ signer_authority' = r.signer_authority
    /\ i' = i + 1
    /\ UNCHANGED <<did, entries, pc, result>>
    /\ UNCHANGED mirror_vars

ValidateFinish ==
    /\ pc = "loop"
    /\ i = Len(entries)
    /\ \E order \in Orders(DOMAIN active_graph) :
          errors' = errors \o settle_errors(entries, active_graph, order)
    /\ result' = IF errors' = <<>> THEN "Ok" ELSE "Err"
    /\ pc' = "done"
    /\ UNCHANGED <<did, entries, i, active_graph, prev, signer_authority>>
    /\ UNCHANGED mirror_vars

Validate == ValidateGenesis \/ ValidateEntry \/ ValidateFinish

\* TestLog::empty
Init ==
    /\ did = EmptyLogDid
    /\ entries = <<>>
    /\ pc = "build"
    /\ i = 0
    /\ errors = <<>>
    /\ active_graph = EmptyGraph
    /\ prev = [ok |-> TRUE, value |-> None]
    /\ signer_authority = None
    /\ result = "none"
    /\ MirrorInit

(***************************************************************************)
(* Times around the malleability cutoff and the recovery window.           *)
(***************************************************************************)
BeforeCutoff == MALLEABILITY_PREVENTED - 1

AtCutoff == MALLEABILITY_PREVENTED

WindowEnd == BeforeCutoff + RECOVERY_WINDOW

AfterWindow == WindowEnd + 1

(***************************************************************************)
(* Spec: logs with structural faults (prev pointers, cids, DIDs).          *)
(***************************************************************************)
StructVariants ==
    {V(InitialRotation, "k1", AtCutoff, f) :
        f \in {{}, {"bogus_cid"}, {"other_did"}, {"bogus_cid", "other_did"}}}

AllPrevs == {"last", "op", "cid", "none"}

Next ==
    \/ WithGenesis(StructVariants)
    \/ WithLegacyGenesis(StructVariants)
    \/ ApplyUpdate(AllPrevs, StructVariants)
    \/ ApplyTombstone(AllPrevs, StructVariants)
    \/ Validate

Spec == Init /\ [][Next]_vars

(***************************************************************************)
(* SpecNull: forks.  Every entry after the genesis names any earlier       *)
(* operation as its prev, is signed with the first or the second rotation  *)
(* key or with no valid key, is created at the start, at the end, or one   *)
(* second after the end of a recovery window, and may be marked nullified. *)
(***************************************************************************)
NullGenesis == {V(InitialRotation, "k1", BeforeCutoff, {})}

NullVariants ==
    {V(InitialRotation, k, t, f) :
        k \in {"k0", "k1", NoKey},
        t \in {BeforeCutoff, WindowEnd, AfterWindow},
        f \in {{}, {"nullified"}}}

NullTombstones ==
    {V(<<>>, k, BeforeCutoff, f) : k \in {"k0", "k1"}, f \in {{}, {"nullified"}}}

NextNull ==
    \/ WithGenesis(NullGenesis)
    \/ ApplyUpdate({"op"}, NullVariants)
    \/ ApplyTombstone({"op"}, NullTombstones)
    \/ Validate

SpecNull == Init /\ [][NextNull]_vars

(***************************************************************************)
(* SpecChain: chains.  Every entry names the entry before it as its prev;  *)
(* entries differ in the rotation keys they declare, in who signed them,   *)
(* in the form of the signature and its text on either side of the         *)
(* malleability cutoff, and in the faults of the entry itself.             *)
(***************************************************************************)
ChainGenesis ==
    {V(InitialRotation, k, AtCutoff, {}) : k \in {"k0", "k1", NoKey}}
    \cup {V(InitialRotation, "k1", AtCutoff, {"padded"}),
          V(InitialRotation, "k1", BeforeCutoff, {"padded"}),
          V(InitialRotation, "k1", AtCutoff, {"other_did"})}

ChainLegacyGenesis ==
    {V(<<>>, k, AtCutoff, {}) : k \in {"k0", "k1", NoKey}}

ChainVariants ==
    {V(r, k, AtCutoff, {}) :
        r \in {InitialRotation, <<"k2", "k1">>}, k \in {"k0", "k1", NoKey}}
    \cup {V(InitialRotation, "k1", AtCutoff, f) :
            f \in {{"padded"}, {"high_s"}, {"garbled"}, {"nullified"},
                   {"other_did"}, {"bogus_cid"}}}
    \cup {V(InitialRotation, "k1", BeforeCutoff, f) :
            f \in {{}, {"padded"}, {"high_s"}}}

ChainTombstones ==
    {V(<<>>, k, AtCutoff, {}) : k \in {"k1", NoKey}}
    \cup {V(<<>>, "k1", AtCutoff, {"padded"})}

NextChain ==
    \/ WithGenesis(ChainGenesis)
    \/ WithLegacyGenesis(ChainLegacyGenesis)
    \/ ApplyUpdate({"last"}, ChainVariants)
    \/ ApplyTombstone({"last"}, ChainTombstones)
    \/ Validate

SpecChain == Init /\ [][NextChain]_vars

(***************************************************************************)
(* SpecKeys: key rotation.  Every entry names the entry before it (or, as  *)
(* a second create, nothing) as its prev, declares one of three rotation   *)
(* key lists (the identity's, one with the first key rotated out, one that *)
(* lists a key twice), and is signed with a rotation key, the fresh key or *)
(* the atproto signing key.                                                *)
(***************************************************************************)
KeyRotations == {InitialRotation, <<"k2", "k1">>, <<"k1", "k0", "k1">>}

KeyGenesis ==
    {V(r, "k1", AtCutoff, {}) : r \in KeyRotations}
    \cup {V(InitialRotation, k, AtCutoff, {}) : k \in {"k0", "k2", SigningKey}}

KeyLegacyGenesis == {V(<<>>, k, AtCutoff, {}) : k \in {"k0", "k1", "k2"}}

KeyVariants ==
    {V(r, k, AtCutoff, {}) : r \in KeyRotations, k \in {"k0", "k1", "k2", SigningKey}}
    \cup {V(InitialRotation, "k1", t, {"high_s"}) : t \in {BeforeCutoff, AtCutoff}}

KeyCreates == {V(<<"k2", "k1">>, k, AtCutoff, {}) : k \in {"k0", "k1", "k2"}}

KeyTombstones == {V(<<>>, k, AtCutoff, {}) : k \in {"k0", "k1", "k2"}}

NextKeys ==
    \/ WithGenesis(KeyGenesis)
    \/ WithLegacyGenesis(KeyLegacyGenesis)
    \/ ApplyUpdate({"last"}, KeyVariants)
    \/ ApplyUpdate({"none"}, KeyCreates)
    \/ ApplyTombstone({"last"}, KeyTombstones)
    \/ Validate

SpecKeys == Init /\ [][NextKeys]_vars

(***************************************************************************)
(* SpecEnc: signature encodings.  Every entry names the entry before it    *)
(* as its prev and is created one second before the malleability cutoff    *)
(* or at it; the signature text is unpadded, padded or garbled, the        *)
(* signature low-S or high-S, by a listed key or by none.  An entry may    *)
(* declare an empty list of rotation keys.                                 *)
(***************************************************************************)
EncTimes == {BeforeCutoff, AtCutoff}

EncGenesis ==
    {V(r, "k1", t, f) :
        r \in {InitialRotation, <<>>}, t \in {AtCutoff}, f \in {{}, {"padded"}}}
    \cup {V(InitialRotation, "k1", BeforeCutoff, f) : f \in {{}, {"padded"}}}

EncLegacyGenesis == {V(<<>>, "k1", t, {"padded"}) : t \in EncTimes}

EncVariants ==
    {V(InitialRotation, "k1", t, f) :
        t \in EncTimes,
        f \in {{}, {"padded"}, {"garbled"}, {"high_s"}, {"padded", "high_s"}}}
    \cup {V(InitialRotation, NoKey, t, f) : t \in EncTimes, f \in {{}, {"padded"}}}
    \cup {V(<<>>, "k1", t, {}) : t \in EncTimes}

EncTombstones ==
    {V(<<>>, "k1", AtCutoff, f) : f \in {{}, {"padded"}}}
    \cup {V(<<>>, "k1", BeforeCutoff, {"padded"})}

NextEnc ==
    \/ WithGenesis(EncGenesis)
    \/ WithLegacyGenesis(EncLegacyGenesis)
    \/ ApplyUpdate({"last"}, EncVariants)
    \/ ApplyTombstone({"last"}, EncTombstones)
    \/ Validate

SpecEnc == Init /\ [][NextEnc]_vars

(***************************************************************************)
(* SpecPrev: prev pointers.  An entry names the last entry, any earlier    *)
(* operation, a cid that no operation has, or nothing as its prev; it may  *)
(* be unsigned by any key, garbled, older than the entries before it,      *)
(* nullified, or claim the cid that no operation has (which makes it the   *)
(* target of the dangling prev pointers, its own included).                *)
(***************************************************************************)
PrevGenesis == {V(InitialRotation, "k1", AtCutoff, f) : f \in {{}, {"bogus_cid"}}}

PrevVariants ==
    {V(InitialRotation, "k1", AtCutoff, f) :
        f \in {{}, {"nullified"}, {"bogus_cid"}, {"garbled"}}}
    \cup {V(InitialRotation, NoKey, AtCutoff, {}),
          V(InitialRotation, "k1", BeforeCutoff, {})}

PrevTombstones ==
    {V(<<>>, "k1", AtCutoff, {}), V(<<>>, NoKey, BeforeCutoff, {"nullified"})}

NextPrev ==
    \/ WithGenesis(PrevGenesis)
    \/ ApplyUpdate(AllPrevs, PrevVariants)
    \/ ApplyTombstone(AllPrevs, PrevTombstones)
    \/ Validate

SpecPrev == Init /\ [][NextPrev]_vars

(***************************************************************************)
(* SpecPending: siblings.  Every entry after the genesis names the genesis *)
(* as its prev; it is signed with the first or the second rotation key or  *)
(* with no valid key, at the start of the recovery window or after its     *)
(* end, and may be marked nullified.                                       *)
(***************************************************************************)
MaxFork == 3

\* TestLog::apply_update(|update| update.with_prev_op(0) ...)
ApplyFork(variants) ==
    /\ Idle
    /\ entries # <<>>
    /\ Len(entries) < MaxFork + 1
    /\ \E v \in variants :
          LET operation == ChangeOp(v.rotation, SigningKey, Len(entries),
                                    Some(cid(entries[1].operation)), add_signature(v))
          IN  /\ entries' = Append(entries, build_entry(did, operation, v))
              /\ UNCHANGED did

ForkVariants ==
    {V(InitialRotation, k, t, f) :
        k \in {"k0", "k1", NoKey},
        t \in {BeforeCutoff, AfterWindow},
        f \in {{}, {"nullified"}}}

NextPending ==
    \/ WithGenesis(NullGenesis)
    \/ ApplyFork(ForkVariants)
    \/ Validate

SpecPending == Init /\ [][NextPending]_vars

(***************************************************************************)
(* SpecDeep: descendants of nullified entries.  The genesis may be marked  *)
(* nullified; every later entry names any earlier operation as its prev,   *)
(* is signed with the second rotation key or with no valid key, and may be *)
(* marked nullified.                                                       *)
(***************************************************************************)
DeepGenesis == {V(InitialRotation, "k1", AtCutoff, f) : f \in {{}, {"nullified"}}}

DeepVariants ==
    {V(InitialRotation, k, AtCutoff, f) :
        k \in {"k1", NoKey}, f \in {{}, {"nullified"}}}

DeepTombstones == {V(<<>>, "k1", AtCutoff, f) : f \in {{}, {"nullified"}}}

NextDeep ==
    \/ WithGenesis(DeepGenesis)
    \/ ApplyUpdate({"op"}, DeepVariants)
    \/ ApplyTombstone({"op"}, DeepTombstones)
    \/ Validate

SpecDeep == Init /\ [][NextDeep]_vars

(***************************************************************************)
(* SpecOrder: list order.  A chain (or an entry that declares no prev) is  *)
(* built, and entries are swapped in the list or removed from it, their    *)
(* operations untouched.                                                   *)
(***************************************************************************)
\* The builder is done appending: the tests take the finished log as
\* `let mut log` and edit its list.
Editing ==
    /\ pc \in {"build", "edited"}
    /\ pc' = "edited"
    /\ UNCHANGED <<did, i, errors, active_graph, prev, signer_authority, result>>
    /\ UNCHANGED mirror_vars

\* TestLog::swap_in_log
SwapInLog ==
    /\ Editing
    /\ \E a \in 1..Len(entries), b \in 1..Len(entries) :
          /\ a < b
          /\ entries' = [entries EXCEPT ![a] = entries[b], ![b] = entries[a]]

\* TestLog::remove
Remove ==
    /\ Editing
    /\ \E k \in 1..Len(entries) : entries' = RemoveAt(entries, k)

OrderVariants == {V(InitialRotation, "k1", AtCutoff, {})}

OrderTombstones == {V(<<>>, "k1", AtCutoff, {})}

NextOrder ==
    \/ WithGenesis(OrderVariants)
    \/ WithLegacyGenesis(OrderVariants)
    \/ ApplyUpdate({"last", "none"}, OrderVariants)
    \/ ApplyTombstone({"last"}, OrderTombstones)
    \/ SwapInLog
    \/ Remove
    \/ Validate

SpecOrder == Init /\ [][NextOrder]_vars

(***************************************************************************)
(* The specification of the final loop: a genesis and up to MaxFork        *)
(* updates, each naming any earlier operation as its prev, signed with the *)
(* first or the second rotation key, and possibly marked nullified.  Two   *)
(* parents can be left with pending children here.                         *)
(***************************************************************************)
\* TestLog::apply_update(|update| update.with_prev_op(j) ...)
ApplyBranch(variants) ==
    /\ Idle
    /\ entries # <<>>
    /\ Len(entries) < MaxFork + 1
    /\ \E p \in PrevChoices({"op"}), v \in variants :
          LET operation == ChangeOp(v.rotation, SigningKey, Len(entries), p,
                                    add_signature(v))
          IN  /\ entries' = Append(entries, build_entry(did, operation, v))
              /\ UNCHANGED did

BranchVariants ==
    {V(InitialRotation, k, BeforeCutoff, f) :
        k \in {"k0", "k1"}, f \in {{}, {"nullified"}}}

NextSettle ==
    \/ WithGenesis(NullGenesis)
    \/ ApplyBranch(BranchVariants)
    \/ Validate

SpecSettle == Init /\ [][NextSettle]_vars

(***************************************************************************)
(* The mirror (src/src/mirror, src/src/commands/mirror.rs).                *)
(*                                                                         *)
(* Datetime keeps the text it was parsed from next to the instant the text *)
(* denotes.  A text is a sequence of character codes; the date and time    *)
(* down to the second, whose digits have a fixed width, are one number.    *)
(* The seconds are followed by 'Z', or by '.', one digit of fraction and   *)
(* 'Z'.  Instants are in tenths of a second.                               *)
(***************************************************************************)
CharDot == 46

CharZero == 48

CharZ == 90

\* "...:SS.fZ"
Datetime(sec, f) ==
    [serialized |-> <<sec, CharDot, CharZero + f, CharZ>>, dt |-> sec * 10 + f]

\* "...:SSZ"
DatetimeWhole(sec) == [serialized |-> <<sec, CharZ>>, dt |-> sec * 10]

as_str(d) == d.serialized

\* str::parse::<Datetime>
parse(text) ==
    [serialized |-> text,
     dt |-> text[1] * 10 + (IF Len(text) = 4 THEN text[3] - CharZero ELSE 0)]

\* The order of SQLite on TEXT values (BINARY collation: memcmp).
RECURSIVE text_less(_, _)
text_less(a, b) ==
    IF b = <<>> THEN FALSE
    ELSE IF a = <<>> THEN TRUE
    ELSE IF Head(a) # Head(b) THEN Head(a) < Head(b)
    ELSE text_less(Tail(a), Tail(b))

(***************************************************************************)
(* Operations as the mirror sees them.  The payload of a change operation  *)
(* is the rest of its PlcData and its unknown fields; the payload of a     *)
(* legacy create is its handle and its service.  A map is a function.      *)
(***************************************************************************)
ATPROTO_VERIFICATION_METHOD == "atproto"

ATPROTO_PDS_KIND == "atproto_pds"

ATPROTO_PDS_TYPE == "AtprotoPersonalDataServer"

EmptyMap == [k \in {} |-> 0]

Service(type, endpoint) == [type |-> type, endpoint |-> endpoint]

PlcData(keys, verification_methods, also_known_as, services) ==
    [rotation_keys |-> keys, verification_methods |-> verification_methods,
     also_known_as |-> also_known_as, services |-> services]

\* Operation::Change
Change(data, prev_cid, extra_fields, sig) ==
    ChangeOp(data.rotation_keys,
             IF ATPROTO_VERIFICATION_METHOD \in DOMAIN data.verification_methods
                 THEN data.verification_methods[ATPROTO_VERIFICATION_METHOD]
                 ELSE NoKey,
             [verification_methods |-> data.verification_methods,
              also_known_as |-> data.also_known_as,
              services |-> data.services,
              extra_fields |-> extra_fields],
             prev_cid, sig)

\* Operation::LegacyCreate
LegacyCreate(signing_key, recovery_key, handle, service, sig) ==
    LegacyCreateOp(signing_key, recovery_key,
                   [handle |-> handle, service |-> service], sig)

LogEntry(entry_did, operation, entry_cid, nullified, created_at) ==
    [did |-> entry_did, operation |-> operation, cid |-> entry_cid,
     nullified |-> nullified, created_at |-> created_at]

(***************************************************************************)
(* The store.  identity, key, atproto_pds and plc_log are sequences: the   *)
(* INTEGER PRIMARY KEY of a row is its position (SQLite gives a new row    *)
(* the largest rowid plus one, and no row is ever deleted).  The three     *)
(* satellite tables are sets of rows.  NULL is None.                       *)
(***************************************************************************)
\* Cid::to_bytes and cid::Cid::read_bytes
to_bytes(c) == [blob |-> c]

read_bytes(b) == b.blob

\* serde_json::Value::Array of Value::String
json_array(strings) == [array |-> strings]

upsert_always_inserts(table, v) ==
    [table |-> Append(table, v), id |-> Len(table) + 1]

\* INSERT INTO t(x) VALUES(v) ON CONFLICT DO UPDATE SET x = x RETURNING id
upsert(table, v) ==
    IF \E k \in 1..Len(table) : table[k] = v
        THEN [table |-> table, id |-> CHOOSE k \in 1..Len(table) : table[k] = v]
        ELSE [table |-> Append(table, v), id |-> Len(table) + 1]

insert_did(d, entry_did) ==
    LET r == upsert(d.identity, entry_did)
    IN  [db |-> [d EXCEPT !.identity = r.table], id |-> r.id]

insert_key(d, key) ==
    LET r == upsert(d.key, key)
    IN  [db |-> [d EXCEPT !.key = r.table], id |-> r.id]

insert_atproto_pds(d, endpoint) ==
    LET r == upsert(d.atproto_pds, endpoint)
    IN  [db |-> [d EXCEPT !.atproto_pds = r.table], id |-> r.id]

\* SELECT entry_id FROM plc_log WHERE cid = :cid (query_row: an error when
\* no row matches)
find_entry(d, c) ==
    LET found == {k \in 1..Len(d.plc_log) : d.plc_log[k].cid = to_bytes(c)}
    IN  IF found = {} THEN [ok |-> FALSE]
        ELSE [ok |-> TRUE, value |-> CHOOSE k \in found : TRUE]

\* insert_entry, were its statement ON CONFLICT(cid) DO UPDATE SET every
\* column to the new value.
insert_entry_replaces(d, row, prev_cid) ==
    LET p == IF IsSome(prev_cid) THEN find_entry(d, prev_cid[1])
             ELSE [ok |-> TRUE, value |-> 0]
    IN  IF ~p.ok THEN [ok |-> FALSE, db |-> d, id |-> 0]
        ELSE LET full  == [row EXCEPT !.prev = IF IsSome(prev_cid)
                                                  THEN Some(p.value) ELSE None]
                 found == {k \in 1..Len(d.plc_log) : d.plc_log[k].cid = row.cid}
             IN  IF found # {}
                     THEN LET k == CHOOSE x \in found : TRUE
                          IN  [ok |-> TRUE, db |-> [d EXCEPT !.plc_log[k] = full], id |-> k]
                     ELSE [ok |-> TRUE,
                           db |-> [d EXCEPT !.plc_log = Append(@, full)],
                           id |-> Len(d.plc_log) + 1]

\* DbInserter::insert_entry: `row` carries the columns but prev, which is
\* looked up here.  INSERT ... ON CONFLICT(cid) DO UPDATE SET cid = cid
\* RETURNING entry_id.
insert_entry(d, row, prev_cid) ==
    LET p == IF IsSome(prev_cid) THEN find_entry(d, prev_cid[1])
             ELSE [ok |-> TRUE, value |-> 0]
    IN  IF ~p.ok THEN [ok |-> FALSE, db |-> d, id |-> 0]
        ELSE LET full  == [row EXCEPT !.prev = IF IsSome(prev_cid)
                                                  THEN Some(p.value) ELSE None]
                 found == {k \in 1..Len(d.plc_log) : d.plc_log[k].cid = row.cid}
             IN  IF found # {}
                     THEN [ok |-> TRUE, db |-> d, id |-> CHOOSE k \in found : TRUE]
                     ELSE [ok |-> TRUE,
                           db |-> [d EXCEPT !.plc_log = Append(@, full)],
                           id |-> Len(d.plc_log) + 1]

\* The columns of a plc_log row (prev is filled in by insert_entry).
Row(c, id, at, nullified, type, aka, signing, pds, sig) ==
    [cid |-> to_bytes(c), identity |-> id, created_at |-> at,
     nullified |-> nullified, type |-> type, also_known_as |-> aka,
     atproto_signing |-> signing, atproto_pds |-> pds, prev |-> None,
     sig |-> sig]

\* INSERT INTO rotation_keys ... ON CONFLICT DO NOTHING, UNIQUE(entry, authority)
insert_rotation_key(d, entry_id, authority, key) ==
    LET k == insert_key(d, key)
    IN  IF \E r \in k.db.rotation_keys : r.entry = entry_id /\ r.authority = authority
            THEN k.db
            ELSE [k.db EXCEPT !.rotation_keys =
                     @ \cup {[entry |-> entry_id, authority |-> authority, key |-> k.id]}]

\* INSERT INTO verification_methods ... ON CONFLICT DO NOTHING,
\* UNIQUE(entry, service)
insert_verification_method(d, entry_id, service, key) ==
    LET k == insert_key(d, key)
    IN  IF \E r \in k.db.verification_methods : r.entry = entry_id /\ r.service = service
            THEN k.db
            ELSE [k.db EXCEPT !.verification_methods =
                     @ \cup {[entry |-> entry_id, service |-> service, key |-> k.id]}]

\* INSERT INTO services ... ON CONFLICT DO NOTHING, UNIQUE(entry, kind)
insert_service(d, entry_id, kind, type, endpoint) ==
    IF \E r \in d.services : r.entry = entry_id /\ r.kind = kind
        THEN d
        ELSE [d EXCEPT !.services =
                 @ \cup {[entry |-> entry_id, kind |-> kind, type |-> type,
                          endpoint |-> endpoint]}]

(***************************************************************************)
(* Db::import, the body of its loop for one entry.  Any `?` that fails     *)
(* leaves the closure with the error.                                      *)
(***************************************************************************)
\* for (authority, key) in rotation_keys.iter().enumerate(), from position n
RECURSIVE insert_rotation_keys(_, _, _, _)
insert_rotation_keys(d, entry_id, keys, n) ==
    IF n > Len(keys) THEN d
    ELSE insert_rotation_keys(insert_rotation_key(d, entry_id, n - 1, keys[n]),
                              entry_id, keys, n + 1)

\* for (service, key) in verification_methods, but the atproto one
RECURSIVE insert_verification_methods(_, _, _, _)
insert_verification_methods(d, entry_id, methods, todo) ==
    IF todo = {} THEN d
    ELSE LET s == CHOOSE x \in todo : TRUE
         IN  insert_verification_methods(
                 insert_verification_method(d, entry_id, s, methods[s]),
                 entry_id, methods, todo \ {s})

\* The service that goes to the column plc_log.atproto_pds.
is_atproto_pds(kind, service) ==
    kind = ATPROTO_PDS_KIND /\ service.type = ATPROTO_PDS_TYPE

\* for (kind, service) in services, but the well-formed atproto_pds
RECURSIVE insert_services(_, _, _, _)
insert_services(d, entry_id, services, todo) ==
    IF todo = {} THEN d
    ELSE LET k == CHOOSE x \in todo : TRUE
         IN  insert_services(
                 insert_service(d, entry_id, k, services[k].type, services[k].endpoint),
                 entry_id, services, todo \ {k})

import_change(d, identity_id, entry) ==
    LET op      == entry.operation
        methods == op.payload.verification_methods
        svcs    == op.payload.services
        signing == IF ATPROTO_VERIFICATION_METHOD \in DOMAIN methods
                       THEN insert_key(d, methods[ATPROTO_VERIFICATION_METHOD])
                       ELSE [db |-> d, id |-> 0]
        has_pds == /\ ATPROTO_PDS_KIND \in DOMAIN svcs
                   /\ is_atproto_pds(ATPROTO_PDS_KIND, svcs[ATPROTO_PDS_KIND])
        pds     == IF has_pds
                       THEN insert_atproto_pds(signing.db, svcs[ATPROTO_PDS_KIND].endpoint)
                       ELSE [db |-> signing.db, id |-> 0]
        row     == Row(entry.cid, identity_id, as_str(entry.created_at),
                       entry.nullified, "O", Some(json_array(op.payload.also_known_as)),
                       IF ATPROTO_VERIFICATION_METHOD \in DOMAIN methods
                           THEN Some(signing.id) ELSE None,
                       IF has_pds THEN Some(pds.id) ELSE None,
                       op.sig)
        e       == insert_entry(pds.db, row, op.prev)
    IN  IF ~e.ok THEN [ok |-> FALSE, db |-> d]
        ELSE LET d1 == insert_rotation_keys(e.db, e.id, op.rotation_keys, 1)
                 d2 == insert_verification_methods(d1, e.id, methods,
                           DOMAIN methods \ {ATPROTO_VERIFICATION_METHOD})
                 d3 == insert_services(d2, e.id, svcs,
                           {k \in DOMAIN svcs : ~is_atproto_pds(k, svcs[k])})
             IN  [ok |-> TRUE, db |-> d3]

import_tombstone(d, identity_id, entry) ==
    LET row == Row(entry.cid, identity_id, as_str(entry.created_at),
                   entry.nullified, "T", None, None, None, entry.operation.sig)
        e   == insert_entry(d, row, entry.operation.prev)
    IN  [ok |-> e.ok, db |-> IF e.ok THEN e.db ELSE d]

import_legacy_create(d, identity_id, entry) ==
    LET op      == entry.operation
        signing == insert_key(d, op.signing_key)
        pds     == insert_atproto_pds(signing.db, op.payload.service)
        row     == Row(entry.cid, identity_id, as_str(entry.created_at),
                       entry.nullified, "C",
                       Some(json_array(<<<<"at://", op.payload.handle>>>>)),
                       Some(signing.id), Some(pds.id), op.sig)
        e       == insert_entry(pds.db, row, None)
    IN  [ok |-> TRUE,
         db |-> insert_rotation_key(
                    insert_rotation_key(e.db, e.id, 0, op.recovery_key),
                    e.id, 1, op.signing_key)]

import_entry(d, entry) ==
    LET identity == insert_did(d, entry.did)
    IN  IF entry.operation.type = "plc_operation"
            THEN import_change(identity.db, identity.id, entry)
        ELSE IF entry.operation.type = "plc_tombstone"
            THEN import_tombstone(identity.db, identity.id, entry)
        ELSE import_legacy_create(identity.db, identity.id, entry)

(***************************************************************************)
(* Reading.  A query yields Entry values (Entry::from_row), hydrate adds   *)
(* the satellite rows, assemble rebuilds the LogEntry.                     *)
(***************************************************************************)
\* Entry::from_row over the joins of the three SELECTs: the row with id k.
from_row(d, k) ==
    LET row == d.plc_log[k]
    IN  [entry_id |-> k,
         did |-> d.identity[row.identity],
         cid |-> read_bytes(row.cid),
         created_at |-> parse(row.created_at),
         nullified |-> row.nullified,
         type |-> row.type,
         also_known_as |-> row.also_known_as,
         atproto_signing |-> IF IsSome(row.atproto_signing)
                                 THEN Some(d.key[row.atproto_signing[1]]) ELSE None,
         atproto_pds |-> IF IsSome(row.atproto_pds)
                             THEN Some(d.atproto_pds[row.atproto_pds[1]]) ELSE None,
         prev |-> IF IsSome(row.prev)
                      THEN Some(read_bytes(d.plc_log[row.prev[1]].cid)) ELSE None,
         sig |-> row.sig]

\* ORDER BY created_at over the rows `ids`: every order SQLite may produce
\* (rows with the same text come in no promised order).
order_by_created_at(d, ids) ==
    {o \in Orders(ids) :
        \A a \in 1..Len(o), b \in 1..Len(o) :
            a < b => ~text_less(d.plc_log[o[b]].created_at, d.plc_log[o[a]].created_at)}

\* LIMIT :count
limit(rows, count) == SubSeq(rows, 1, IF Len(rows) < count THEN Len(rows) ELSE count)

\* WHERE did = :did
rows_of_did(d, entry_did) ==
    {k \in 1..Len(d.plc_log) : d.identity[d.plc_log[k].identity] = entry_did}

\* Entry::get_audit_log: the sequences of row ids it may yield.
get_audit_log(d, entry_did) == order_by_created_at(d, rows_of_did(d, entry_did))

\* Entry::get_latest_active: WHERE ... AND nullified IS FALSE
\* ORDER BY created_at DESC LIMIT 1.
get_latest_active(d, entry_did) ==
    LET active == {k \in rows_of_did(d, entry_did) : ~d.plc_log[k].nullified}
    IN  IF active = {} THEN {<<>>}
        ELSE {<<k>> : k \in {m \in active :
                 \A n \in active :
                     ~text_less(d.plc_log[m].created_at, d.plc_log[n].created_at)}}

\* Entry::get_log_entries: WHERE created_at > :after ORDER BY created_at
\* LIMIT :count.  A comparison with NULL (after absent) is not true.
get_log_entries(d, count, after_param) ==
    LET later == IF IsSome(after_param)
                     THEN {k \in 1..Len(d.plc_log) :
                              text_less(as_str(after_param[1]), d.plc_log[k].created_at)}
                     ELSE {}
    IN  {limit(o, count) : o \in order_by_created_at(d, later)}

\* Entry::hydrate
RECURSIVE by_authority(_, _)
by_authority(rows, keys) ==
    IF rows = {} THEN <<>>
    ELSE LET r == CHOOSE x \in rows : \A y \in rows : x.authority <= y.authority
         IN  <<keys[r.key]>> \o by_authority(rows \ {r}, keys)

hydrate(d, entry) ==
    LET vm  == {r \in d.verification_methods : r.entry = entry.entry_id}
        svc == {r \in d.services : r.entry = entry.entry_id}
    IN  [entry |-> entry,
         rotation_keys |->
             by_authority({r \in d.rotation_keys : r.entry = entry.entry_id}, d.key),
         verification_methods |->
             [s \in {r.service : r \in vm} |->
                 d.key[(CHOOSE r \in vm : r.service = s).key]],
         services |->
             [k \in {r.kind : r \in svc} |->
                 LET r == CHOOSE x \in svc : x.kind = k
                 IN  Service(r.type, r.endpoint)]]

\* HydratedEntry::assemble, the match on entry.type: the operation content,
\* or an error.
with_key(map, k, v) == [x \in (DOMAIN map) \cup {k} |-> IF x = k THEN v ELSE map[x]]

assemble_change(h) ==
    LET e == h.entry
    IN  IF ~IsSome(e.also_known_as) THEN [ok |-> FALSE, err |-> "Missing also_known_as"]
        ELSE [ok |-> TRUE,
              value |->
                 Change(PlcData(h.rotation_keys,
                                IF IsSome(e.atproto_signing)
                                    THEN with_key(h.verification_methods,
                                                  ATPROTO_VERIFICATION_METHOD,
                                                  e.atproto_signing[1])
                                    ELSE h.verification_methods,
                                e.also_known_as[1].array,
                                IF IsSome(e.atproto_pds)
                                    THEN with_key(h.services, ATPROTO_PDS_KIND,
                                                  Service(ATPROTO_PDS_TYPE, e.atproto_pds[1]))
                                    ELSE h.services),
                        e.prev, EmptyMap, e.sig)]

assemble_tombstone(h) ==
    LET e == h.entry
    IN  IF IsSome(e.also_known_as) \/ IsSome(e.atproto_signing) \/ IsSome(e.atproto_pds)
            THEN [ok |-> FALSE, err |-> "Tombstone has unexpected entries"]
        ELSE IF ~IsSome(e.prev) THEN [ok |-> FALSE, err |-> "Tombstone op missing prev"]
        ELSE [ok |-> TRUE, value |-> TombstoneOp(e.prev[1], e.sig)]

assemble_legacy_create(h) ==
    LET e == h.entry
    IN  IF ~(/\ Len(h.rotation_keys) = 2
             /\ DOMAIN h.verification_methods = {}
             /\ DOMAIN h.services = {})
            THEN [ok |-> FALSE, err |-> "Legacy create op has unexpected entries"]
        ELSE IF Some(h.rotation_keys[2]) # e.atproto_signing
            THEN [ok |-> FALSE, err |-> "secondary rotation key mismatch"]
        ELSE IF ~IsSome(e.also_known_as)
            THEN [ok |-> FALSE, err |-> "Missing also_known_as"]
        ELSE IF Len(e.also_known_as[1].array) # 1
            THEN [ok |-> FALSE, err |-> "also_known_as is not length 1"]
        ELSE IF ~(/\ Len(e.also_known_as[1].array[1]) = 2
                  /\ e.also_known_as[1].array[1][1] = "at://")
            THEN [ok |-> FALSE, err |-> "also_known_as missing prefix"]
        ELSE IF ~IsSome(e.atproto_pds)
            THEN [ok |-> FALSE, err |-> "Legacy create op missing atproto_pds"]
        ELSE [ok |-> TRUE,
              value |-> LegacyCreate(e.atproto_signing[1], h.rotation_keys[1],
                                     e.also_known_as[1].array[1][2],
                                     e.atproto_pds[1], e.sig)]

assemble_content(h) ==
    IF h.entry.type = "O" THEN assemble_change(h)
    ELSE IF h.entry.type = "T" THEN assemble_tombstone(h)
    ELSE assemble_legacy_create(h)

assemble_unchecked(h) ==
    LET content == assemble_content(h)
    IN  IF ~content.ok THEN content
        ELSE [ok |-> TRUE,
              value |-> LogEntry(h.entry.did, content.value, h.entry.cid,
                                 h.entry.nullified, h.entry.created_at)]

\* HydratedEntry::assemble
assemble(h) ==
    LET content == assemble_content(h)
    IN  IF ~content.ok THEN content
        ELSE IF cid(content.value) = h.entry.cid
            THEN [ok |-> TRUE,
                  value |-> LogEntry(h.entry.did, content.value, h.entry.cid,
                                     h.entry.nullified, h.entry.created_at)]
        ELSE [ok |-> FALSE, err |-> "CID mismatch"]

\* entries.into_iter().map(|entry| entry.assemble()).collect()
RECURSIVE assemble_all(_)
assemble_all(hs) ==
    IF hs = <<>> THEN [ok |-> TRUE, value |-> <<>>]
    ELSE LET first == assemble(Head(hs))
             rest  == assemble_all(Tail(hs))
         IN  IF ~first.ok THEN first
             ELSE IF ~rest.ok THEN rest
             ELSE [ok |-> TRUE, value |-> <<first.value>> \o rest.value]

(***************************************************************************)
(* The upstream registry.  Its log holds two identities: the first is      *)
(* created by a change operation, updated (the update names its PDS with   *)
(* the type capitalised wrongly and carries a second verification method)  *)
(* and deactivated; the second is created by a legacy create and updated   *)
(* by a change operation that carries a field this client does not know.   *)
(* Signatures made before the malleability cutoff are padded.  The         *)
(* registry writes every created_at with a fraction.                       *)
(***************************************************************************)
AliceGenesisOp ==
    Change(PlcData(InitialRotation,
                   [m \in {ATPROTO_VERIFICATION_METHOD} |-> SigningKey],
                   <<<<"at://", "alice">>>>,
                   [k \in {ATPROTO_PDS_KIND} |-> Service(ATPROTO_PDS_TYPE, "pds1")]),
           None, EmptyMap, Sig("k0", "padded", FALSE))

AliceUpdateOp ==
    Change(PlcData(InitialRotation,
                   [m \in {ATPROTO_VERIFICATION_METHOD, "other"} |->
                       IF m = "other" THEN "k2" ELSE SigningKey],
                   <<<<"at://", "alice">>>>,
                   [k \in {ATPROTO_PDS_KIND} |->
                       Service("atprotoPersonalDataServer", "pds2")]),
           Some(cid(AliceGenesisOp)), EmptyMap, Sig("k1", "padded", FALSE))

AliceTombstoneOp == TombstoneOp(cid(AliceUpdateOp), Sig("k0", "unpadded", FALSE))

BobCreateOp == LegacyCreate("ks2", "k0", "bob", "pds1", Sig("ks2", "padded", FALSE))

BobUpdateOp ==
    Change(PlcData(<<"k0", "k0">>,
                   [m \in {ATPROTO_VERIFICATION_METHOD} |-> "ks2"],
                   <<<<"at://", "bob">>, <<"at://", "robert">>>>,
                   EmptyMap),
           Some(cid(BobCreateOp)), [f \in {"extra"} |-> 1], Sig("k0", "unpadded", FALSE))

AliceDid == derive_did(signed_bytes(AliceGenesisOp))

BobDid == derive_did(signed_bytes(BobCreateOp))

\* GET /export of the registry, from the beginning: its whole log.
Upstream ==
    <<LogEntry(AliceDid, AliceGenesisOp, cid(AliceGenesisOp), FALSE, Datetime(1, 0)),
      LogEntry(BobDid, BobCreateOp, cid(BobCreateOp), FALSE, Datetime(1, 5)),
      LogEntry(AliceDid, AliceUpdateOp, cid(AliceUpdateOp), FALSE, Datetime(2, 0)),
      LogEntry(BobDid, BobUpdateOp, cid(BobUpdateOp), FALSE, Datetime(2, 0)),
      LogEntry(AliceDid, AliceTombstoneOp, cid(AliceTombstoneOp), FALSE, Datetime(3, 0))>>

\* The same log once the registry has accepted a recovery operation (not
\* shown) that revokes the tombstone: the tombstone is marked nullified.
UpstreamRevoked == [Upstream EXCEPT ![5].nullified = TRUE]

(***************************************************************************)
(* Db::import.  The transaction works on a copy of the store that no other *)
(* connection sees; commit publishes it, and dropping the transaction on   *)
(* an error (the `?` operators) rolls it back.  SQLite admits one writer.  *)
(***************************************************************************)
MaxBatch == 2

\* The batches an export can hand to import: up to MaxBatch entries of the
\* upstream log, in its order.
RECURSIVE pick(_, _)
pick(log, S) ==
    IF log = <<>> THEN <<>>
    ELSE (IF Len(log) \in S THEN pick(SubSeq(log, 1, Len(log) - 1), S)
                                    \o <<log[Len(log)]>>
          ELSE pick(SubSeq(log, 1, Len(log) - 1), S))

Batches ==
    {pick(log, S) :
        log \in {Upstream, UpstreamRevoked},
        S \in {T \in SUBSET (1..Len(Upstream)) : Cardinality(T) <= MaxBatch}}

\* conn.transaction(), DbInserter::new and the locals of the closure
BeginImport(batch) ==
    /\ tx = None
    /\ tx' = Some([db |-> db, entries |-> batch, n |-> 0, latest_created_at |-> None])
    /\ import_result' = None

\* One iteration of `for entry in entries`, were every statement committed
\* on its own.
ImportEntryAutocommit ==
    /\ IsSome(tx)
    /\ tx[1].n < Len(tx[1].entries)
    /\ LET t     == tx[1]
           entry == t.entries[t.n + 1]
           r     == import_entry(t.db, entry)
       IN  IF r.ok
               THEN /\ tx' = Some([t EXCEPT !.db = r.db, !.n = t.n + 1,
                                            !.latest_created_at = Some(entry.created_at)])
                    /\ UNCHANGED <<db, import_result>>
               ELSE /\ tx' = None
                    /\ db' = t.db
                    /\ import_result' = Some([ok |-> FALSE, err |-> "QueryReturnedNoRows"])
    /\ UNCHANGED <<after, imported, importer, reader, response, auditor, main_task>>
    /\ UNCHANGED audit_vars

\* One iteration of `for entry in entries`.
ImportEntry ==
    /\ IsSome(tx)
    /\ tx[1].n < Len(tx[1].entries)
    /\ LET t     == tx[1]
           entry == t.entries[t.n + 1]
           r     == import_entry(t.db, entry)
       IN  IF r.ok
               THEN /\ tx' = Some([t EXCEPT !.db = r.db, !.n = t.n + 1,
                                            !.latest_created_at = Some(entry.created_at)])
                    /\ UNCHANGED import_result
               ELSE /\ tx' = None
                    /\ import_result' = Some([ok |-> FALSE, err |-> "QueryReturnedNoRows"])
    /\ UNCHANGED <<db, after, imported, importer, reader, response, auditor, main_task>>
    /\ UNCHANGED audit_vars

\* tx.commit() and the value import returns
ImportCommit ==
    /\ IsSome(tx)
    /\ tx[1].n = Len(tx[1].entries)
    /\ db' = tx[1].db
    /\ tx' = None
    /\ import_result' =
           Some([ok |-> TRUE,
                 value |-> IF IsSome(tx[1].latest_created_at)
                               THEN Some(<<tx[1].latest_created_at[1], Len(tx[1].entries)>>)
                               ELSE None])
    /\ UNCHANGED <<after, imported, importer, reader, response, auditor, main_task>>
    /\ UNCHANGED audit_vars

\* The store fails (the disk, a lock that is not granted): the error leaves
\* import and the transaction is dropped.
ImportFails ==
    /\ IsSome(tx)
    /\ tx' = None
    /\ import_result' = Some([ok |-> FALSE, err |-> "store"])
    /\ UNCHANGED <<db, after, imported, importer, reader, response, auditor, main_task>>
    /\ UNCHANGED audit_vars

Import == ImportEntry \/ ImportCommit \/ ImportFails

\* Db::get_last_created: SELECT created_at FROM plc_log ORDER BY created_at
\* DESC LIMIT 1, parsed.
get_last_created(d) ==
    IF d.plc_log = <<>> THEN None
    ELSE LET k == CHOOSE m \in 1..Len(d.plc_log) :
                      \A n \in 1..Len(d.plc_log) :
                          ~text_less(d.plc_log[m].created_at, d.plc_log[n].created_at)
         IN  Some(parse(d.plc_log[k].created_at))

(***************************************************************************)
(* SpecImport: a caller hands batches to Db::import, one after the other.  *)
(***************************************************************************)
CallImport ==
    /\ \E batch \in Batches : BeginImport(batch)
    /\ UNCHANGED <<db, after, imported, importer, reader, response, auditor, main_task>>
    /\ UNCHANGED audit_vars

NextImport == CallImport \/ Import

SpecImport == Init /\ [][NextImport]_vars

(***************************************************************************)
(* Reads: Db::get_audit_log, Db::get_last_active_entry and Db::export.     *)
(* Each runs its SELECT, hydrates the rows one by one (a statement each,   *)
(* outside any transaction: a statement sees what is committed when it     *)
(* runs), then assembles them.                                             *)
(***************************************************************************)
\* bounded_count, were it to pass the count on as given.
bounded_count_unclamped(params) ==
    IF IsSome(params.count) THEN params.count[1] ELSE 10

\* ExportParams::bounded_count
bounded_count(params) ==
    LET count == IF IsSome(params.count) THEN params.count[1] ELSE 10
    IN  IF count < 1000 THEN count ELSE 1000

\* The row ids the SELECT of a call may yield, in order.
select(d, call) ==
    IF call.name = "get_audit_log" THEN get_audit_log(d, call.did)
    ELSE IF call.name = "get_last_active_entry" THEN get_latest_active(d, call.did)
    ELSE get_log_entries(d, bounded_count(call.params), call.params.after)

Query(call) ==
    /\ reader.pc = "idle"
    /\ \E o \in select(db, call) :
          reader' = [pc |-> "hydrate", call |-> call,
                     rows |-> [k \in 1..Len(o) |-> from_row(db, o[k])],
                     hydrated |-> <<>>]
    /\ response' = None

\* entry.hydrate(conn), for the next row
Hydrate ==
    /\ reader.pc = "hydrate"
    /\ Len(reader.hydrated) < Len(reader.rows)
    /\ reader' = [reader EXCEPT !.hydrated =
                     Append(@, hydrate(db, reader.rows[Len(reader.hydrated) + 1]))]
    /\ UNCHANGED <<db, tx, import_result, after, imported, importer, response, auditor, main_task>>
    /\ UNCHANGED audit_vars

\* What the Db method returns: the entries, or for get_last_active_entry
\* the Option of one.
returned(call, hydrated) ==
    LET all == assemble_all(hydrated)
    IN  IF call.name = "get_last_active_entry" /\ all.ok
            THEN [ok |-> TRUE,
                  value |-> IF all.value = <<>> THEN None ELSE Some(all.value[1])]
            ELSE all

Assemble ==
    /\ reader.pc = "hydrate"
    /\ Len(reader.hydrated) = Len(reader.rows)
    /\ response' = Some([call |-> reader.call,
                         result |-> returned(reader.call, reader.hydrated)])
    /\ reader' = NoRead
    /\ UNCHANGED <<db, tx, import_result, after, imported, importer, auditor, main_task>>
    /\ UNCHANGED audit_vars

Read == Hydrate \/ Assemble

(***************************************************************************)
(* SpecRead and SpecExport: one caller imports batches and reads the       *)
(* store, one call at a time, keeping what its last call returned.         *)
(* SpecRead reads identities; SpecExport asks for exports with and without *)
(* count and after, and writes `after` with or without a fraction.         *)
(***************************************************************************)
Dids == {AliceDid, BobDid}

ExportParams(count, after_param) == [count |-> count, after |-> after_param]

Counts == {None, Some(1), Some(2)}

Afters ==
    {None, Some(DatetimeWhole(1)), Some(Datetime(1, 0)), Some(Datetime(1, 5)),
     Some(DatetimeWhole(2))}

DidCalls ==
    {[name |-> "get_audit_log", did |-> d] : d \in Dids}
        \cup {[name |-> "get_last_active_entry", did |-> d] : d \in Dids}

ExportCalls ==
    {[name |-> "export", params |-> ExportParams(c, a)] : c \in Counts, a \in Afters}

CallRead(calls) ==
    /\ tx = None
    /\ \E call \in calls : Query(call)
    /\ import_result' = None
    /\ UNCHANGED <<db, tx, after, imported, importer, auditor, main_task>>
    /\ UNCHANGED audit_vars

CallImportAlone ==
    /\ reader.pc = "idle"
    /\ \E batch \in Batches : BeginImport(batch)
    /\ response' = None
    /\ UNCHANGED <<db, after, imported, importer, reader, auditor, main_task>>
    /\ UNCHANGED audit_vars

NextRead == CallImportAlone \/ Import \/ CallRead(DidCalls) \/ Read

SpecRead == Init /\ [][NextRead]_vars

NextExport == CallImportAlone \/ Import \/ CallRead(ExportCalls) \/ Read

SpecExport == Init /\ [][NextExport]_vars

(***************************************************************************)
(* SpecTied: as SpecRead, with a registry whose log holds an operation     *)
(* created at the same instant as the operation it follows.  The validator *)
(* admits such a log (LogEntry::validate_with_prev rejects an entry only   *)
(* when it was created before its prev).                                   *)
(***************************************************************************)
UpstreamTied ==
    <<LogEntry(AliceDid, AliceGenesisOp, cid(AliceGenesisOp), FALSE, Datetime(1, 0)),
      LogEntry(AliceDid, AliceUpdateOp, cid(AliceUpdateOp), FALSE, Datetime(1, 0)),
      LogEntry(BobDid, BobCreateOp, cid(BobCreateOp), FALSE, Datetime(1, 5)),
      LogEntry(AliceDid, AliceTombstoneOp, cid(AliceTombstoneOp), FALSE, Datetime(2, 0))>>

TiedBatches ==
    {pick(UpstreamTied, S) :
        S \in {T \in SUBSET (1..Len(UpstreamTied)) : Cardinality(T) <= MaxBatch}}

CallImportTied ==
    /\ reader.pc = "idle"
    /\ \E batch \in TiedBatches : BeginImport(batch)
    /\ response' = None
    /\ UNCHANGED <<db, after, imported, importer, reader, auditor, main_task>>
    /\ UNCHANGED audit_vars

NextTied == CallImportTied \/ Import \/ CallRead(DidCalls) \/ Read

SpecTied == Init /\ [][NextTied]_vars

(***************************************************************************)
(* The importer task of RunMirror::run.  It asks the registry for the page *)
(* of entries after its cursor, imports the page, moves the cursor, and    *)
(* sleeps when the page was not full.  ExportCount stands for the 1000 of  *)
(* the request and of the test before the sleep.                           *)
(***************************************************************************)
ExportCount == 2

\* What the registry holds when asked: it only grows, and the mirror holds
\* nothing the registry did not hold.
RegistryLogs(d) ==
    {SubSeq(log, 1, n) :
        log \in {Upstream, UpstreamRevoked},
        n \in Len(d.plc_log)..Len(Upstream)}

RECURSIVE entries_after(_, _)
entries_after(log, after_param) ==
    IF log = <<>> THEN <<>>
    ELSE IF IsSome(after_param) /\ ~(Head(log).created_at.dt > after_param[1].dt)
        THEN entries_after(Tail(log), after_param)
    ELSE <<Head(log)>> \o entries_after(Tail(log), after_param)

\* plc::export: the answer of the registry to
\* /export?count=1000[&after=...], or a failed request.
export(log, after_param) ==
    limit(entries_after(log, after_param), ExportCount)

\* let mut after = db_handle.get_last_created().await?; the task is spawned
ImporterStart ==
    /\ importer = "idle"
    /\ tx = None
    /\ after' = get_last_created(db)
    /\ importer' = "export"
    /\ main_task' = [pc |-> "ctrl_c"]
    /\ UNCHANGED <<db, tx, import_result, imported, reader, response, auditor>>
    /\ UNCHANGED audit_vars

\* The loop, were it to sleep after every iteration.
pace_always_sleeps(n) == "sleep"

\* if imported < 1000 { sleep(10 s) }: where the loop is after an iteration
pace(n) == IF n < ExportCount THEN "sleep" ELSE "export"

\* plc::export(after, client) fails: Err(e) => { error!(..); 0 }
ExportRequestFails ==
    /\ importer = "export"
    /\ imported' = 0
    /\ importer' = pace(0)
    /\ UNCHANGED <<db, tx, import_result, after, reader, response, auditor, main_task>>
    /\ UNCHANGED audit_vars

\* plc::export(after, client) answers: Ok(entries) => db.import(entries),
\* which fails at once on a closed pool.
ExportRequest ==
    /\ importer = "export"
    /\ IF main_task.pc = "done"
           THEN /\ import_result' =
                       Some([ok |-> FALSE, err |-> "connection to sqlite database closed"])
                /\ UNCHANGED tx
           ELSE \E log \in RegistryLogs(db) : BeginImport(export(log, after))
    /\ importer' = "import"
    /\ UNCHANGED <<db, after, imported, reader, response, auditor, main_task>>
    /\ UNCHANGED audit_vars

\* The arms of `match db.import(entries).await`, and the test before the
\* sleep.
ImportReturns ==
    /\ importer = "import"
    /\ tx = None
    /\ IsSome(import_result)
    /\ LET r == import_result[1]
       IN  IF ~r.ok
               THEN /\ importer' = "stopped"
                    /\ UNCHANGED <<after, imported>>
           ELSE IF r.value = None
               THEN /\ imported' = 0
                    /\ importer' = pace(0)
                    /\ UNCHANGED after
           ELSE /\ after' = Some(r.value[1][1])
                /\ imported' = r.value[1][2]
                /\ importer' = pace(r.value[1][2])
    /\ import_result' = None
    /\ UNCHANGED <<db, tx, reader, response, auditor, main_task>>
    /\ UNCHANGED audit_vars

\* tokio::time::sleep(Duration::from_secs(10)) is over
Wake ==
    /\ importer = "sleep"
    /\ importer' = "export"
    /\ UNCHANGED <<db, tx, import_result, after, imported, reader, response, auditor, main_task>>
    /\ UNCHANGED audit_vars

Importer ==
    ImporterStart \/ ExportRequestFails \/ ExportRequest \/ ImportReturns \/ Wake

\* run() of RunMirror: tokio::signal::ctrl_c().await? returns
RunCtrlC ==
    /\ main_task.pc = "ctrl_c"
    /\ main_task' = [pc |-> "close"]
    /\ UNCHANGED <<db, tx, import_result, after, imported, importer, reader, response, auditor>>
    /\ UNCHANGED audit_vars

\* db_handle.close().await?: the pool closes its connection once the call
\* that runs on it (an import is one call) has returned.
RunClose ==
    /\ main_task.pc = "close"
    /\ tx = None
    /\ main_task' = [pc |-> "done"]
    /\ UNCHANGED <<db, tx, import_result, after, imported, importer, reader, response, auditor>>
    /\ UNCHANGED audit_vars

Shutdown == RunCtrlC \/ RunClose

(***************************************************************************)
(* SpecCount: ExportParams::bounded_count and the LIMIT :count of          *)
(* Entry::get_log_entries, on counts a request may carry and on numbers of *)
(* rows that match the WHERE clause, below, at and above the two limits.   *)
(***************************************************************************)
CountInputs == {None} \cup {Some(c) : c \in {0, 1, 9, 10, 11, 999, 1000, 1001, 5000}}

RowCounts == {0, 1, 9, 10, 11, 12, 999, 1000, 1001, 1002, 5001}

\* GET /export?count=..: the rows that match, cut by LIMIT :count.
CallExportCount ==
    /\ \E c \in CountInputs, matching \in RowCounts :
          LET params == ExportParams(c, Some(DatetimeWhole(0)))
          IN  response' = Some([call |-> [name |-> "export", params |-> params],
                                matching |-> matching,
                                rows |-> limit([k \in 1..matching |-> k],
                                               bounded_count(params))])
    /\ UNCHANGED <<db, tx, import_result, after, imported, importer, reader, auditor, main_task>>
    /\ UNCHANGED audit_vars

NextCount == CallExportCount

SpecCount == Init /\ [][NextCount]_vars

(***************************************************************************)
(* SpecMirror: the importer runs against a store that holds nothing, or    *)
(* what an earlier run left.                                               *)
(***************************************************************************)
\* An earlier run has left the first page of the registry in the store.
Resume ==
    /\ importer = "idle"
    /\ tx = None
    /\ db = EmptyDb
    /\ \E n \in 1..ExportCount : BeginImport(SubSeq(Upstream, 1, n))
    /\ UNCHANGED <<db, after, imported, importer, reader, response, auditor, main_task>>
    /\ UNCHANGED audit_vars

NextMirror == Resume \/ Importer \/ Import \/ Shutdown

SpecMirror == Init /\ [][NextMirror]_vars

(***************************************************************************)
(* SpecCatchUp: the importer against a registry that holds the whole log   *)
(* from the start and answers every request, and a store that never        *)
(* fails.  The importer task is scheduled whenever it can take a step (its *)
(* requests are answered, its sleep ends, its transaction goes on); SIGINT *)
(* may come or not.                                                        *)
(***************************************************************************)
ExportRequestWhole ==
    /\ ExportRequest
    /\ \/ main_task.pc = "done"
       \/ \E log \in {Upstream, UpstreamRevoked} : tx'[1].entries = export(log, after)

ImporterTask == ImporterStart \/ ExportRequestWhole \/ ImportReturns \/ Wake

ImporterCatchingUp == ImporterTask \/ ImportEntry \/ ImportCommit

NextCatchUp == Resume \/ ImporterCatchingUp \/ Shutdown

\* ImportEntry can take a step exactly when the transaction has an entry
\* left; its weak fairness, written with that condition.
FairImportEntry ==
    \/ []<>~(IsSome(tx) /\ tx[1].n < Len(tx[1].entries))
    \/ []<><<ImportEntry>>_vars

FairCatchUp == WF_vars(ImporterTask) /\ WF_vars(ImportCommit) /\ FairImportEntry

SpecCatchUp == Init /\ [][NextCatchUp]_vars /\ FairCatchUp

(***************************************************************************)
(* SpecSnapshot: the importer's connection and a reader's connection of    *)
(* the pool work at the same time.  The reader's statements (the SELECT,   *)
(* then the statements of hydrate for each row) run outside a transaction, *)
(* each on what is committed when it runs; an import may begin, insert and *)
(* commit between any two of them.                                         *)
(***************************************************************************)
\* The pages an importer may hand to Db::import: entries that follow in
\* the registry's log, starting no later than after what the store holds.
Pages(d) ==
    {SubSeq(log, a, b) :
        log \in {Upstream, UpstreamRevoked},
        a \in 1..(Len(d.plc_log) + 1),
        b \in 1..Len(Upstream)} \ {<<>>}

SnapshotCalls ==
    DidCalls \cup {[name |-> "export",
                    params |-> ExportParams(Some(2), Some(DatetimeWhole(0)))]}

\* A SELECT that would see the rows of a transaction in progress.
QueryUncommitted(call) ==
    /\ reader.pc = "idle"
    /\ LET d == IF IsSome(tx) THEN tx[1].db ELSE db
       IN  \E o \in select(d, call) :
              reader' = [pc |-> "hydrate", call |-> call,
                         rows |-> [k \in 1..Len(o) |-> from_row(d, o[k])],
                         hydrated |-> <<>>]
    /\ response' = None

\* The SELECT of a read, on another connection than the import's.
QueryCommitted(call) == Query(call)

CallImportPage ==
    /\ \E batch \in {p \in Pages(db) : Len(p) <= MaxBatch} : BeginImport(batch)
    /\ UNCHANGED <<db, after, imported, importer, reader, response, auditor, main_task>>
    /\ UNCHANGED audit_vars

CallReadMeanwhile ==
    /\ \E call \in SnapshotCalls : QueryCommitted(call)
    /\ UNCHANGED <<db, tx, import_result, after, imported, importer, auditor, main_task>>
    /\ UNCHANGED audit_vars

NextSnapshot == CallImportPage \/ Import \/ CallReadMeanwhile \/ Read

SpecSnapshot == Init /\ [][NextSnapshot]_vars

(***************************************************************************)
(* SpecReimport: the store is filled from the registry, page by page, and  *)
(* entries whose cid is stored are imported again, one at a time: as the   *)
(* registry holds them, or with another nullified flag, another            *)
(* created_at, another signature, or one more rotation key under the same  *)
(* cid (import does not recompute the cid).                                *)
(***************************************************************************)
Altered(e) ==
    {[e EXCEPT !.nullified = ~@],
     [e EXCEPT !.created_at = Datetime(9, 0)],
     [e EXCEPT !.operation.sig = Sig("k1", "unpadded", TRUE)]}

Regrown(e) ==
    IF e.operation.type = "plc_operation"
        THEN {[e EXCEPT !.operation.rotation_keys = Append(@, "k9")]}
        ELSE {}

Reimports(d) ==
    UNION {{e} \cup Altered(e) \cup Regrown(e) :
              e \in {Upstream[n] : n \in {x \in 1..Len(Upstream) :
                        \E k \in 1..Len(d.plc_log) :
                            d.plc_log[k].cid = to_bytes(Upstream[x].cid)}}}

CallReimport ==
    /\ \E e \in Reimports(db) : BeginImport(<<e>>)
    /\ UNCHANGED <<db, after, imported, importer, reader, response, auditor, main_task>>
    /\ UNCHANGED audit_vars

NextReimport == CallImportPage \/ CallReimport \/ Import

SpecReimport == Init /\ [][NextReimport]_vars

(***************************************************************************)
(* The HTTP API of the mirror: GET /:did, /:did/log, /:did/log/audit,      *)
(* /:did/log/last and /:did/data.  A handler awaits                        *)
(* Db::get_last_active_entry or Db::get_audit_log and derives status and   *)
(* body from what it returns.                                              *)
(***************************************************************************)
OK == 200

NOT_FOUND == 404

GONE == 410

\* LegacyCreateOp::into_plc_data
into_plc_data(op) ==
    PlcData(rotation_keys(op),
            [m \in {ATPROTO_VERIFICATION_METHOD} |-> op.signing_key],
            <<<<"at://", op.payload.handle>>>>,
            [k \in {ATPROTO_PDS_KIND} |-> Service(ATPROTO_PDS_TYPE, op.payload.service)])

\* LogEntry::into_state
into_state(entry) ==
    LET op == entry.operation
    IN  IF op.type = "plc_operation"
            THEN Some([did |-> entry.did,
                       plc |-> PlcData(op.rotation_keys, op.payload.verification_methods,
                                       op.payload.also_known_as, op.payload.services)])
        ELSE IF op.type = "plc_tombstone" THEN None
        ELSE Some([did |-> entry.did, plc |-> into_plc_data(op)])

\* key.strip_prefix("did:key:"): the keys of the model stand for did:key
\* texts, NoKey for a text of another form.
strip_prefix(key) == IF key = NoKey THEN None ELSE Some([multibase |-> key])

\* State::into_doc
into_doc(state) ==
    IF \E m \in DOMAIN state.plc.verification_methods :
           strip_prefix(state.plc.verification_methods[m]) = None
        THEN [ok |-> FALSE, err |-> "Verification methods for DID are corrupted"]
    ELSE [ok |-> TRUE,
          value |->
             [id |-> state.did,
              also_known_as |-> Some(state.plc.also_known_as),
              verification_method |->
                  Some([m \in DOMAIN state.plc.verification_methods |->
                           [id |-> <<state.did, "#", m>>,
                            type |-> "Multikey",
                            controller |-> state.did,
                            public_key_multibase |->
                                strip_prefix(state.plc.verification_methods[m])]]),
              service |->
                  Some([k \in DOMAIN state.plc.services |->
                           [id |-> <<"#", k>>,
                            type |-> state.plc.services[k].type,
                            service_endpoint |-> state.plc.services[k].endpoint]])]]

\* PlcResult::from
PlcResult(r) == IF r.ok THEN [ok |-> r.value] ELSE [message |-> r.err]

\* The handler's `status` and the state it gets to, from what
\* get_last_active_entry returned.
state_of(r) ==
    IF ~r.ok THEN [status |-> OK, result |-> r]
    ELSE IF r.value = None
        THEN [status |-> NOT_FOUND, result |-> [ok |-> FALSE, err |-> "DID not registered"]]
    ELSE IF into_state(r.value[1]) = None
        THEN [status |-> GONE, result |-> [ok |-> FALSE, err |-> "DID not available"]]
    ELSE [status |-> OK, result |-> [ok |-> TRUE, value |-> into_state(r.value[1])[1]]]

\* get_plc_data
get_plc_data(r) ==
    [status |-> state_of(r).status, body |-> PlcResult(state_of(r).result)]

\* resolve_did
resolve_did(r) ==
    LET s == state_of(r)
    IN  [status |-> s.status,
         body |-> PlcResult(IF s.result.ok THEN into_doc(s.result.value) ELSE s.result)]

\* get_plc_audit_log
get_plc_audit_log(r) ==
    IF ~r.ok THEN [status |-> OK, body |-> PlcResult(r)]
    ELSE IF r.value = <<>>
        THEN [status |-> NOT_FOUND, body |-> [message |-> "DID not registered"]]
    ELSE [status |-> OK, body |-> [ok |-> r.value]]

\* get_plc_op_log
get_plc_op_log(r) ==
    IF ~r.ok THEN [status |-> OK, body |-> PlcResult(r)]
    ELSE IF r.value = <<>>
        THEN [status |-> NOT_FOUND, body |-> [message |-> "DID not registered"]]
    ELSE [status |-> OK,
          body |-> [ok |-> [k \in 1..Len(r.value) |-> r.value[k].operation]]]

\* get_last_op
get_last_op(r) ==
    IF ~r.ok THEN [status |-> OK, body |-> PlcResult(r)]
    ELSE IF r.value = None
        THEN [status |-> NOT_FOUND, body |-> [message |-> "DID not registered"]]
    ELSE [status |-> OK, body |-> [ok |-> r.value[1].operation]]

Routes == {"/:did", "/:did/log", "/:did/log/audit", "/:did/log/last", "/:did/data"}

\* The handler of a route, applied to what its Db call returned.
handler(route, r) ==
    IF route = "/:did" THEN resolve_did(r)
    ELSE IF route = "/:did/log" THEN get_plc_op_log(r)
    ELSE IF route = "/:did/log/audit" THEN get_plc_audit_log(r)
    ELSE IF route = "/:did/log/last" THEN get_last_op(r)
    ELSE get_plc_data(r)

ApiCalls ==
    {[name |-> IF r \in {"/:did/log", "/:did/log/audit"}
                   THEN "get_audit_log" ELSE "get_last_active_entry",
      did |-> d, route |-> r] :
        d \in Dids, r \in Routes}

\* (status, response) of the handler, once the Db call has returned
Respond ==
    /\ reader.pc = "hydrate"
    /\ Len(reader.hydrated) = Len(reader.rows)
    /\ LET r == returned(reader.call, reader.hydrated)
       IN  response' = Some([call |-> reader.call,
                             result |-> r,
                             http |-> handler(reader.call.route, r)])
    /\ reader' = NoRead
    /\ UNCHANGED <<db, tx, import_result, after, imported, importer, auditor, main_task>>
    /\ UNCHANGED audit_vars

NextApi == CallImportAlone \/ Import \/ CallRead(ApiCalls) \/ Hydrate \/ Respond

SpecApi == Init /\ [][NextApi]_vars

(***************************************************************************)
(* The sweep of AuditMirror::run.  The auditor task lists the identities   *)
(* page by page, spawns a batch task per page, at most `chunks` at a time, *)
(* and sends the finished signal when a page is empty and no batch is      *)
(* left.  ListCount stands for the 10_000 of list_dids; chunks is what     *)
(* available_parallelism returns on the machine.  A run-mirror process may *)
(* import into the same store meanwhile.                                   *)
(***************************************************************************)
ListCount == 1

MaxChunks == 2

\* Db::total_dids: the greatest identity_id; no row is an error.
total_dids(d) ==
    IF d.identity = <<>> THEN [ok |-> FALSE, err |-> "QueryReturnedNoRows"]
    ELSE [ok |-> TRUE, value |-> Len(d.identity)]

\* list_dids, were it to read from the first row every time.
list_dids_without_offset(d, count, after_id) ==
    [k \in 1..(IF Len(d.identity) < count THEN Len(d.identity) ELSE count) |->
        <<k, d.identity[k]>>]

\* Db::list_dids: ORDER BY identity_id LIMIT :count OFFSET :offset, with
\* offset = after.unwrap_or(0).
list_dids(d, count, after_id) ==
    LET offset == IF IsSome(after_id) THEN after_id[1] ELSE 0
        rest   == IF offset < Len(d.identity)
                      THEN SubSeq(d.identity, offset + 1, Len(d.identity)) ELSE <<>>
    IN  [k \in 1..(IF Len(rest) < count THEN Len(rest) ELSE count) |->
            <<offset + k, rest[k]>>]

\* The pool of this process is closed: every call on it fails with
\* "connection to sqlite database closed".
pool_closed == main_task.pc = "done"

closed == "connection to sqlite database closed"

\* The auditor task is spawned, and run() waits in its select!.
AuditStart ==
    /\ auditor.pc = "idle"
    /\ \E chunks \in 1..MaxChunks :
          auditor' = [pc |-> "count", chunks |-> chunks, after |-> None,
                      auditing |-> <<>>, total_audited |-> 0, total_dids |-> 0,
                      audits |-> <<>>, finished |-> FALSE, err |-> ""]
    /\ main_task' = [pc |-> "select"]
    /\ UNCHANGED <<db, tx, import_result, after, imported, importer, reader, response>>
    /\ UNCHANGED audit_vars

\* The top of the loop: db.total_dids()
CountDids ==
    /\ auditor.pc = "count"
    /\ LET total == IF pool_closed THEN [ok |-> FALSE, err |-> closed] ELSE total_dids(db)
       IN  auditor' = IF total.ok
                          THEN [auditor EXCEPT !.pc = "list", !.total_dids = total.value]
                          ELSE [auditor EXCEPT !.pc = "exited", !.err = total.err]
    /\ UNCHANGED <<db, tx, import_result, after, imported, importer, reader, response, main_task>>
    /\ UNCHANGED audit_vars

\* One turn of `while auditing.len() < chunks`: list a page and spawn its
\* batch task, or leave the loop.
ListPage ==
    /\ auditor.pc = "list"
    /\ LET dids == list_dids(db, ListCount, auditor.after)
       IN  auditor' =
              IF Len(auditor.auditing) >= auditor.chunks THEN [auditor EXCEPT !.pc = "check"]
              ELSE IF pool_closed THEN [auditor EXCEPT !.pc = "exited", !.err = closed]
              ELSE IF dids = <<>> THEN [auditor EXCEPT !.pc = "check"]
              ELSE [auditor EXCEPT !.after = Some(dids[Len(dids)][1]),
                                   !.auditing = Append(@, [dids |-> dids, n |-> 0,
                                                           aborted |-> FALSE])]
    /\ UNCHANGED <<db, tx, import_result, after, imported, importer, reader, response, main_task>>
    /\ UNCHANGED audit_vars

\* The batch task has returned: Some(audited), or None once the pool is
\* closed.
ended(task) == task.aborted \/ task.n = Len(task.dids)

\* A batch task finds the pool closed: `return None`.
AuditAborts ==
    /\ auditor.pc # "idle"
    /\ pool_closed
    /\ \E t \in 1..Len(auditor.auditing) :
          /\ ~ended(auditor.auditing[t])
          /\ auditor' = [auditor EXCEPT !.auditing[t].aborted = TRUE]
    /\ UNCHANGED <<db, tx, import_result, after, imported, importer, reader, response, main_task>>
    /\ UNCHANGED audit_vars

\* db.get_audit_log(did) of a batch task: whether it returns Ok(entries),
\* for each order the SELECT may return the rows in.
audit_log_read(d, entry_did) ==
    {assemble_all([k \in 1..Len(o) |-> hydrate(d, from_row(d, o[k]))]).ok :
        o \in get_audit_log(d, entry_did)}

\* One turn of `for (id, did) in dids` in a batch task: the audit log is
\* read and handed to validate, or the failure to read it is logged.
AuditDid ==
    /\ auditor.pc # "idle"
    /\ ~pool_closed
    /\ \E t \in 1..Len(auditor.auditing) :
          LET task == auditor.auditing[t]
          IN  /\ ~ended(task)
              /\ \E read_ok \in audit_log_read(db, task.dids[task.n + 1][2]) :
                    auditor' =
                       [auditor EXCEPT
                           !.auditing[t].n = task.n + 1,
                           !.audits = Append(@, [id |-> task.dids[task.n + 1][1],
                                                 did |-> task.dids[task.n + 1][2],
                                                 validated |-> read_ok])]
    /\ UNCHANGED <<db, tx, import_result, after, imported, importer, reader, response, main_task>>
    /\ UNCHANGED audit_vars

\* if auditing.is_empty() { finished_tx.send(()); return }
CheckFinished ==
    /\ auditor.pc = "check"
    /\ auditor' = IF auditor.auditing = <<>>
                      THEN [auditor EXCEPT !.pc = "finished", !.finished = TRUE]
                      ELSE [auditor EXCEPT !.pc = "select"]
    /\ UNCHANGED <<db, tx, import_result, after, imported, importer, reader, response, main_task>>
    /\ UNCHANGED audit_vars

\* select_all(auditing).await: a batch task that has ended is taken out,
\* its count is added, and the loop starts over.
SelectAll ==
    /\ auditor.pc = "select"
    /\ \E t \in 1..Len(auditor.auditing) :
          LET task == auditor.auditing[t]
          IN  /\ ended(task)
              /\ auditor' = [auditor EXCEPT
                                !.pc = "count",
                                !.auditing = RemoveAt(@, t),
                                !.total_audited =
                                    IF task.aborted THEN @ ELSE @ + Len(task.dids)]
    /\ UNCHANGED <<db, tx, import_result, after, imported, importer, reader, response, main_task>>
    /\ UNCHANGED audit_vars

\* finished_rx of the select! is ready: the signal was sent, or the
\* auditor task has returned and dropped finished_tx.  Were it ready on a
\* sent signal only:
FinishedRxOnSendOnly ==
    /\ main_task.pc = "select"
    /\ auditor.pc = "finished"
    /\ main_task' = [pc |-> "close", by |-> "finished_rx"]
    /\ UNCHANGED <<db, tx, import_result, after, imported, importer, reader, response, auditor>>
    /\ UNCHANGED audit_vars

FinishedRx ==
    /\ main_task.pc = "select"
    /\ auditor.pc \in {"finished", "exited"}
    /\ main_task' = [pc |-> "close", by |-> "finished_rx"]
    /\ UNCHANGED <<db, tx, import_result, after, imported, importer, reader, response, auditor>>
    /\ UNCHANGED audit_vars

\* tokio::signal::ctrl_c() of the select! is ready
CtrlC ==
    /\ main_task.pc = "select"
    /\ main_task' = [pc |-> "close", by |-> "ctrl_c"]
    /\ UNCHANGED <<db, tx, import_result, after, imported, importer, reader, response, auditor>>
    /\ UNCHANGED audit_vars

\* db_handle.close().await
CloseDb ==
    /\ main_task.pc = "close"
    /\ main_task' = [main_task EXCEPT !.pc = "done"]
    /\ UNCHANGED <<db, tx, import_result, after, imported, importer, reader, response, auditor>>
    /\ UNCHANGED audit_vars

Audit ==
    \/ AuditStart \/ CountDids \/ ListPage \/ AuditDid \/ AuditAborts
    \/ CheckFinished \/ SelectAll \/ FinishedRx \/ CtrlC \/ CloseDb

\* The run-mirror process imports meanwhile (what it does once this
\* process has closed its pool is of no concern here).
ImportMeanwhile == main_task.pc # "done" /\ (CallImportPage \/ Import)

NextAudit == ImportMeanwhile \/ Audit

SpecAudit == Init /\ [][NextAudit]_vars

\* What the runtime guarantees of the audit process: a spawned task that can
\* take a step is scheduled, a store call returns, and a ready branch of
\* the select! is taken.  Nothing makes SIGINT arrive or the other process
\* import.  The three kinds of task:
AuditorTask == CountDids \/ ListPage \/ CheckFinished \/ SelectAll

\* A turn of a batch task, whatever get_audit_log returns: AuditDid can
\* take a step exactly when this can, and is the only action that takes
\* one of these.
BatchTaskTurn ==
    /\ auditor.pc # "idle"
    /\ ~pool_closed
    /\ \E t \in 1..Len(auditor.auditing) :
          LET task == auditor.auditing[t]
          IN  /\ ~ended(task)
              /\ \E read_ok \in BOOLEAN :
                    auditor' =
                       [auditor EXCEPT
                           !.auditing[t].n = task.n + 1,
                           !.audits = Append(@, [id |-> task.dids[task.n + 1][1],
                                                 did |-> task.dids[task.n + 1][2],
                                                 validated |-> read_ok])]
    /\ UNCHANGED <<db, tx, import_result, after, imported, importer, reader, response, main_task>>
    /\ UNCHANGED audit_vars

BatchTask == BatchTaskTurn \/ AuditAborts

MainTask == FinishedRx \/ CloseDb

FairAudit == WF_vars(AuditorTask) /\ WF_vars(BatchTask) /\ WF_vars(MainTask)

\* The audit process over a store that the run-mirror process has filled
\* before and leaves alone during the sweep.
ImportBefore == auditor.pc = "idle" /\ (CallImportPage \/ Import)

NextAuditLive == ImportBefore \/ Audit

SpecAuditLive == Init /\ [][NextAuditLive]_vars /\ FairAudit

(***************************************************************************)
(* Vocabulary of the properties.                                           *)
(***************************************************************************)
Range(seq) == {seq[k] : k \in 1..Len(seq)}

\* a occurs in b as a (not necessarily contiguous) subsequence.
RECURSIVE IsSubseq(_, _)
IsSubseq(a, b) ==
    IF a = <<>> THEN TRUE
    ELSE IF b = <<>> THEN FALSE
    ELSE IF Head(a) = Head(b) THEN IsSubseq(Tail(a), Tail(b))
    ELSE IsSubseq(a, Tail(b))

\* The errors a step appends to `errors`.
Raised == SubSeq(errors', Len(errors) + 1, Len(errors'))

\* The step is the loop iteration for the entry at list position n.
Visits(n) == pc = "loop" /\ pc' = "loop" /\ i' = n /\ i = n - 1

Positions == 1..Len(entries)

Done == pc = "done"

\* The cid an entry declares as its prev (None for a create).
DeclaredPrev(e) == IF e.operation.type = "create" THEN None ELSE e.operation.prev

\* The entry's own faults, as the claims word them.
CidWrong(e) == e.cid # [codec |-> 113, digest |-> e.operation]

DidWrong(e) == e.did # did

SelfErrors(e) ==
    (IF CidWrong(e)
        THEN <<[kind |-> "EntryCidInvalid", cid |-> e.cid,
                actual |-> [codec |-> 113, digest |-> e.operation]]>>
        ELSE <<>>)
    \o (IF DidWrong(e) THEN <<[kind |-> "EntryDidMismatch", cid |-> e.cid]>> ELSE <<>>)

RECURSIVE SelfErrorsUpTo(_)
SelfErrorsUpTo(n) ==
    IF n = 0 THEN <<>> ELSE SelfErrorsUpTo(n - 1) \o SelfErrors(entries[n])

(***************************************************************************)
(* C1.  validate never stops at the first error: it visits every entry in  *)
(* list order, returns Ok only when nothing was raised, and otherwise      *)
(* returns every error raised; the self checks of every entry are reported *)
(* in list order whatever the entries before raised.                       *)
(***************************************************************************)
C1_NoShortCircuit ==
    /\ pc = "loop" => IsSubseq(SelfErrorsUpTo(i), errors)
    /\ Done =>
        /\ i = Len(entries)
        /\ result = "Ok" <=> errors = <<>>
        /\ result = "Err" <=> errors # <<>>
        /\ IsSubseq(SelfErrorsUpTo(Len(entries)), errors)

C1_Witness ==
    /\ Done
    /\ result = "Err"
    /\ \E n \in Positions : \E m \in Positions :
          /\ n < m
          /\ Len(SelfErrors(entries[n])) = 2
          /\ SelfErrors(entries[m]) # <<>>
          /\ IsSubseq(SelfErrors(entries[n]) \o SelfErrors(entries[m]), errors)

(***************************************************************************)
(* Vocabulary of the nullification claims.                                 *)
(***************************************************************************)
\* The step visits the active entry n whose located prev is active; c is
\* the cid of that prev.
VisitsActiveChild(n, c) ==
    /\ Visits(n)
    /\ ~entries[n].nullified
    /\ prev'.ok
    /\ IsSome(prev'.value)
    /\ ~entries[prev'.value[1]].nullified
    /\ c = entries[prev'.value[1]].cid

\* The earlier siblings the check compares the new active entry with: the
\* recorded active child when there is one, else the pending nullified
\* children.
Compared(node) ==
    IF IsSome(node.active_child) THEN {node.active_child[1]}
    ELSE Range(node.nullified_children)

WithinWindow(e, s) == e.created_at <= s.created_at + 72 * 60 * 60

\* "E supersedes S" as C2 words it, on the authorities validate recorded.
Supersedes(e, authority, s, earlier_authority) ==
    /\ WithinWindow(e, s)
    /\ CASE authority = None -> FALSE
         [] earlier_authority = None -> TRUE
         [] OTHER -> authority[1] < earlier_authority[1]

\* What the step did to the earlier sibling s of node c: as the active
\* child it was replaced, as a pending nullified child it was removed.
Superseded(c, s) ==
    IF c \in DOMAIN active_graph /\ IsSome(active_graph[c].active_child)
        THEN active_graph'[c].active_child # active_graph[c].active_child
        ELSE s \notin Range(active_graph'[c].nullified_children)

(***************************************************************************)
(* C2.  In both nullification checks (against the recorded active child,   *)
(* against the pending nullified children) the later entry E supersedes    *)
(* the earlier sibling S exactly when E.created_at <= S.created_at + 72h   *)
(* and E's authority index is strictly smaller; an E of unknown authority  *)
(* never supersedes; an S of unknown authority is superseded by any E of   *)
(* known authority that is in time.                                        *)
(***************************************************************************)
C2_Supersedes ==
    [][\A n \in Positions : \A c \in DOMAIN active_graph :
          VisitsActiveChild(n, c) =>
              \A s \in Compared(active_graph[c]) :
                  Superseded(c, s) <=>
                      Supersedes(entries[n], signer_authority',
                                 entries[s.entry], s.authority)]_vars

\* E, signed with the first rotation key exactly 72 hours after the sibling
\* S that the second key signed, has superseded S.
C2_Witness ==
    /\ pc = "loop"
    /\ i > 2
    /\ ~entries[i].nullified
    /\ signer_authority = Some(0)
    /\ \E s \in 1..(i - 1) :
          /\ entries[s].nullified
          /\ entries[s].operation.prev = entries[i].operation.prev
          /\ entries[s].operation.sig.signer = "k1"
          /\ entries[i].created_at = entries[s].created_at + 259200
          /\ \A c \in DOMAIN active_graph :
                /\ active_graph[c].nullified_children = <<>>
                /\ active_graph[c].active_child = Some(Child(i, Some(0)))

(***************************************************************************)
(* C6 as stated: the nullification checks treat an entry that raised       *)
(* TrustViolation (its authority is recorded as unknown) as if the key of  *)
(* authority index 0 had signed it.                                        *)
(***************************************************************************)
AsHighestAuthority(authority) == IF authority = None THEN 0 ELSE authority[1]

C6_TreatedAsHighestAuthority ==
    [][\A n \in Positions : \A c \in DOMAIN active_graph :
          VisitsActiveChild(n, c) =>
              \A s \in Compared(active_graph[c]) :
                  Superseded(c, s) <=>
                      /\ WithinWindow(entries[n], entries[s.entry])
                      /\ AsHighestAuthority(signer_authority')
                             < AsHighestAuthority(s.authority)]_vars

(***************************************************************************)
(* C6, amended.  When no rotation key of a live prev verifies a decodable  *)
(* signature, validate raises TrustViolation, records the signer authority *)
(* as unknown and goes on to the nullification checks and to the next      *)
(* entry.  In those checks the untrusted entry, as the later entry, never  *)
(* supersedes a sibling; as the earlier sibling it is superseded by every  *)
(* later sibling of known authority that is within the window.             *)
(***************************************************************************)
Untrusted(n) == [kind |-> "TrustViolation", cid |-> entries[n].cid] \in Range(Raised)

C6_UntrustedIsUnknown ==
    [][\A n \in Positions :
          /\ Visits(n) /\ Untrusted(n) =>
                /\ signer_authority' = None
                /\ prev'.ok
                /\ IsSome(prev'.value) =>
                      entries[prev'.value[1]].cid \in DOMAIN active_graph'
          /\ \A c \in DOMAIN active_graph :
                VisitsActiveChild(n, c) =>
                    \A s \in Compared(active_graph[c]) :
                        /\ Untrusted(n) => ~Superseded(c, s)
                        /\ s.authority = None /\ signer_authority' # None =>
                              (Superseded(c, s)
                                  <=> WithinWindow(entries[n], entries[s.entry]))]_vars

\* An untrusted active child has been replaced by a later sibling that the
\* first rotation key signed within the window.
C6_Witness ==
    /\ pc = "loop"
    /\ i > 2
    /\ signer_authority = Some(0)
    /\ \E s \in 1..(i - 1) : \E c \in DOMAIN active_graph :
          /\ entries[s].operation.prev = Some(c)
          /\ entries[i].operation.prev = Some(c)
          /\ ~entries[s].nullified
          /\ entries[s].operation.sig.signer = NoKey
          /\ [kind |-> "TrustViolation", cid |-> entries[s].cid] \in Range(errors)
          /\ [kind |-> "EntryIncorrectlyActive", cid |-> entries[s].cid] \in Range(errors)
          /\ active_graph[c].active_child = Some(Child(i, Some(0)))

(***************************************************************************)
(* C10.  When the active entry E arrives at an active prev P that already  *)
(* has an active child A: if E supersedes A, validate raises               *)
(* EntryIncorrectlyActive{A} and E becomes P's active child; otherwise it  *)
(* raises MultipleActiveChildren{cid: E, first: A} and A stays.  Nothing   *)
(* else about nullification is raised and the pending children stay.       *)
(***************************************************************************)
NullificationKinds ==
    {"EntryIncorrectlyActive", "EntryIncorrectlyNullified", "MultipleActiveChildren"}

IsNullificationError(e) == e.kind \in NullificationKinds

C10_SecondActiveChild ==
    [][\A n \in Positions : \A c \in DOMAIN active_graph :
          VisitsActiveChild(n, c) /\ IsSome(active_graph[c].active_child) =>
              LET a == active_graph[c].active_child[1]
              IN  /\ active_graph'[c].nullified_children
                         = active_graph[c].nullified_children
                  /\ IF Supersedes(entries[n], signer_authority',
                                   entries[a.entry], a.authority)
                        THEN /\ SelectSeq(Raised, IsNullificationError)
                                  = <<[kind |-> "EntryIncorrectlyActive",
                                       cid |-> entries[a.entry].cid]>>
                             /\ active_graph'[c].active_child
                                  = Some([entry |-> n,
                                          authority |-> signer_authority'])
                        ELSE /\ SelectSeq(Raised, IsNullificationError)
                                  = <<[kind |-> "MultipleActiveChildren",
                                       cid |-> entries[n].cid,
                                       first |-> entries[a.entry].cid]>>
                             /\ active_graph'[c].active_child = Some(a)]_vars

\* Both outcomes in one log is too long for the bound; the witness is the
\* replacement: A (second key) was active, E (first key) replaced it.
C10_Witness ==
    /\ pc = "loop"
    /\ i > 2
    /\ ~entries[i].nullified
    /\ \E a \in 1..(i - 1) : \E c \in DOMAIN active_graph :
          /\ entries[a].operation.prev = Some(c)
          /\ entries[i].operation.prev = Some(c)
          /\ ~entries[a].nullified
          /\ entries[a].operation.sig.signer = "k1"
          /\ entries[i].operation.sig.signer = "k0"
          /\ errors = <<[kind |-> "EntryIncorrectlyActive", cid |-> entries[a].cid]>>
          /\ active_graph[c].active_child = Some(Child(i, Some(0)))

\* The other outcome of C10: E did not supersede A, and A stayed.
C10_WitnessKept ==
    /\ pc = "loop"
    /\ i > 2
    /\ \E a \in 1..(i - 1) : \E c \in DOMAIN active_graph :
          /\ entries[a].operation.prev = Some(c)
          /\ entries[i].operation.prev = Some(c)
          /\ errors = <<[kind |-> "MultipleActiveChildren", cid |-> entries[i].cid,
                         first |-> entries[a].cid]>>
          /\ active_graph[c].active_child = Some(Child(a, Some(1)))

(***************************************************************************)
(* Vocabulary of the chain claims.                                         *)
(***************************************************************************)
\* The rotation keys an entry lists, as the claims word them.
ListedKeys(e) ==
    IF e.operation.type = "create"
        THEN {e.operation.recovery_key, e.operation.signing_key}
        ELSE Range(e.operation.rotation_keys)

\* The keys that may sign the entry at position n of a chain.
ChainKeys(n) == IF n = 1 THEN ListedKeys(entries[1]) ELSE ListedKeys(entries[n - 1])

\* Everything C3 asks of the entry at position n, the signature aside.
ChainLink(n) ==
    /\ IF n = 1
          THEN /\ \/ entries[1].operation.type = "create"
                  \/ /\ entries[1].operation.type = "plc_operation"
                     /\ entries[1].operation.prev = None
               /\ [method |-> "plc", digest |-> entries[1].operation] = did
          ELSE /\ \/ entries[n].operation.type = "plc_operation"
                  \/ /\ entries[n].operation.type = "plc_tombstone"
                     /\ n = Len(entries)
               /\ entries[n].operation.prev = Some(entries[n - 1].cid)
               /\ entries[n].created_at >= entries[n - 1].created_at
    /\ ~CidWrong(entries[n])
    /\ ~entries[n].nullified

SignedByListedKey(n) == entries[n].operation.sig.signer \in ChainKeys(n)

LinearChainAsClaimed ==
    /\ entries # <<>>
    /\ \A n \in Positions : ChainLink(n) /\ SignedByListedKey(n)

\* The signature is in the form its time of creation requires: canonical
\* base64url text and low-S from the cutoff on; before the cutoff padding
\* and high-S are tolerated.
SigWellFormed(e) ==
    IF e.created_at < 1701370214
        THEN e.operation.sig.text \in {"unpadded", "padded"}
        ELSE e.operation.sig.text = "unpadded" /\ ~e.operation.sig.high_s

(***************************************************************************)
(* C3 as stated: validate returns Ok for every chain whose genesis is a    *)
(* change without prev or a legacy create with the claimed DID, whose      *)
(* later entries are changes (or a final tombstone) naming the entry just  *)
(* before, with correct cids, signatures made by a rotation key the prev   *)
(* lists (its own keys for the genesis), created_at never decreasing and   *)
(* no entry nullified.                                                     *)
(***************************************************************************)
C3_LinearChainAsStated == Done /\ LinearChainAsClaimed => result = "Ok"

(***************************************************************************)
(* C3, amended.  validate returns Ok for every such chain in which, in     *)
(* addition, every entry carries the claimed DID and every signature is    *)
(* in the form its time of creation requires (from the cutoff on: unpadded *)
(* base64url text and low-S).                                              *)
(***************************************************************************)
C3_LinearChainOk ==
    Done /\ LinearChainAsClaimed
         /\ (\A n \in Positions : ~DidWrong(entries[n]) /\ SigWellFormed(entries[n]))
      => result = "Ok" /\ errors = <<>>

\* A chain of three entries ending in a tombstone, one of them with a padded
\* signature from before the cutoff, has been accepted.
C3_Witness ==
    /\ Done
    /\ result = "Ok"
    /\ Len(entries) >= 3
    /\ LinearChainAsClaimed
    /\ entries[Len(entries)].operation.type = "plc_tombstone"
    /\ \E n \in Positions : entries[n].operation.sig.text = "padded"

(***************************************************************************)
(* C4.  Every entry (change or tombstone, nullified or not) whose prev     *)
(* resolves to a tombstone raises OperationAfterDeactivation{cid, prev}    *)
(* and no TrustViolation for itself; so no log that validate accepts has   *)
(* an entry whose prev is the cid of a tombstone of the log.               *)
(***************************************************************************)
IsTombstone(e) == e.operation.type = "plc_tombstone"

C4_NothingAfterTombstone ==
    [][/\ \A n \in Positions :
             Visits(n) /\ prev'.ok /\ IsSome(prev'.value)
                       /\ IsTombstone(entries[prev'.value[1]]) =>
                 /\ [kind |-> "OperationAfterDeactivation", cid |-> entries[n].cid,
                     prev |-> entries[prev'.value[1]].cid] \in Range(Raised)
                 /\ [kind |-> "TrustViolation", cid |-> entries[n].cid]
                        \notin Range(Raised)
       /\ pc' = "done" /\ result' = "Ok" =>
             \A n \in Positions : \A m \in Positions :
                 DeclaredPrev(entries[n]) = Some(entries[m].cid)
                     => ~IsTombstone(entries[m])]_vars

\* A nullified entry that no key signed has named a tombstone as its prev:
\* the deactivation is reported, a trust violation is not.
C4_Witness ==
    /\ pc = "loop"
    /\ i > 2
    /\ prev.ok
    /\ IsSome(prev.value)
    /\ IsTombstone(entries[prev.value[1]])
    /\ entries[i].nullified
    /\ entries[i].operation.sig.signer = NoKey
    /\ [kind |-> "OperationAfterDeactivation", cid |-> entries[i].cid,
        prev |-> entries[prev.value[1]].cid] \in Range(errors)
    /\ [kind |-> "TrustViolation", cid |-> entries[i].cid] \notin Range(errors)

(***************************************************************************)
(* C7.  A TrustViolation or InvalidSignatureEncoding on entry X adds no    *)
(* error to the descendants of X.  X is still located as a prev, and its   *)
(* first child raises nothing when it has a correct cid, DID and           *)
(* timestamp, is not nullified and carries a well-formed signature by a    *)
(* rotation key that X lists.  A chain that is correct but for the         *)
(* signature of X returns X's error and nothing else: one error when a     *)
(* key was there to check the signature against.                           *)
(***************************************************************************)
SignatureErrors(e) ==
    {[kind |-> "TrustViolation", cid |-> e.cid],
     [kind |-> "InvalidSignatureEncoding", cid |-> e.cid]}

\* The entry at x, and no entry before it, claims the cid of entry x.
FirstWithCid(x) == \A k \in 1..(x - 1) : entries[k].cid # entries[x].cid

\* The entry at n is a faultless first child of the entry at x.
GoodFirstChildOf(n, x) ==
    /\ x < n
    /\ FirstWithCid(x)
    /\ DeclaredPrev(entries[n]) = Some(entries[x].cid)
    /\ ~IsTombstone(entries[x])
    /\ ~entries[x].nullified
    /\ ~entries[n].nullified
    /\ ~CidWrong(entries[n])
    /\ ~DidWrong(entries[n])
    /\ entries[n].created_at >= entries[x].created_at
    /\ entries[n].operation.sig.signer \in ListedKeys(entries[x])
    /\ SigWellFormed(entries[n])
    /\ \A k \in (x + 1)..(n - 1) : DeclaredPrev(entries[k]) # Some(entries[x].cid)

\* The chain is correct but for the signature of the entry at x.
ChainButSignatureOf(x) ==
    /\ \A n \in Positions : ChainLink(n) /\ ~DidWrong(entries[n])
    /\ \A n \in Positions \ {x} : SignedByListedKey(n) /\ SigWellFormed(entries[n])
    /\ ~(SignedByListedKey(x) /\ SigWellFormed(entries[x]))

C7_NoPoisoning ==
    [][/\ \A n \in Positions : \A x \in Positions :
             /\ Visits(n)
             /\ GoodFirstChildOf(n, x)
             /\ SignatureErrors(entries[x]) \cap Range(errors) # {}
             => /\ prev' = [ok |-> TRUE, value |-> Some(x)]
                /\ Raised = <<>>
       /\ \A x \in Positions :
             pc' = "done" /\ ChainButSignatureOf(x) =>
                 /\ errors' # <<>>
                 /\ Range(errors') \subseteq SignatureErrors(entries[x])
                 /\ ChainKeys(x) # {} => Len(errors') = 1]_vars

\* The second of three entries has a signature of no listed key, the third
\* is its faultless child, and validate has returned the one error.
C7_Witness ==
    /\ Done
    /\ Len(entries) >= 3
    /\ ChainButSignatureOf(2)
    /\ GoodFirstChildOf(3, 2)
    /\ errors = <<[kind |-> "TrustViolation", cid |-> entries[2].cid]>>

\* The same with a padded signature after the cutoff.
C7_WitnessEncoding ==
    /\ Done
    /\ Len(entries) >= 3
    /\ ChainButSignatureOf(2)
    /\ GoodFirstChildOf(3, 2)
    /\ errors = <<[kind |-> "InvalidSignatureEncoding", cid |-> entries[2].cid]>>

(***************************************************************************)
(* Vocabulary of the signature claims.                                     *)
(***************************************************************************)
\* The list position the declared prev of entry n resolves to: the first
\* earlier entry that claims the cid.
Resolves(n, x) ==
    /\ x < n
    /\ FirstWithCid(x)
    /\ DeclaredPrev(entries[n]) = Some(entries[x].cid)

\* The rotation keys an entry lists, in the order of their authority.
KeyList(e) ==
    IF e.operation.type = "create"
        THEN <<e.operation.recovery_key, e.operation.signing_key>>
        ELSE e.operation.rotation_keys

\* The text of the signature decodes: it is base64url, and unpadded unless
\* the entry is from before the cutoff.
Decodable(e) ==
    \/ e.operation.sig.text = "unpadded"
    \/ e.operation.sig.text = "padded" /\ e.created_at < 1701370214

\* The decoded signature of e verifies under the key: low-S is demanded
\* from the cutoff on.
VerifiesUnder(e, key) ==
    /\ e.operation.sig.signer = key
    /\ e.created_at < 1701370214 \/ ~e.operation.sig.high_s

VerifyingIndices(e, keys) == {k \in 1..Len(keys) : VerifiesUnder(e, keys[k])}

\* What C5 says of a step that checks the signature of e against keys.
TrustOutcome(e, keys) ==
    LET hits == VerifyingIndices(e, keys)
    IN  /\ [kind |-> "TrustViolation", cid |-> e.cid] \in Range(Raised) <=> hits = {}
        /\ hits = {} => signer_authority' = None
        /\ hits # {} =>
              \E k \in hits : /\ \A h \in hits : k <= h
                              /\ signer_authority' = Some(k - 1)

(***************************************************************************)
(* C5.  For an entry with a decodable signature and a prev that is not a   *)
(* tombstone, validate raises TrustViolation{cid} exactly when the         *)
(* signature verifies under none of the rotation keys that its immediate   *)
(* prev lists: the keys of older ancestors and the atproto signing key do  *)
(* not count.  An entry without prev is checked against its own rotation   *)
(* keys ([recovery_key, signing_key] for a legacy create).  The signer     *)
(* authority is the smallest (0-based) index of a verifying key.           *)
(***************************************************************************)
C5_TrustFromImmediatePrev ==
    [][\A n \in Positions :
          Visits(n) /\ Decodable(entries[n]) =>
              /\ \A x \in Positions :
                    Resolves(n, x) /\ ~IsTombstone(entries[x]) =>
                        TrustOutcome(entries[n], KeyList(entries[x]))
              /\ DeclaredPrev(entries[n]) = None =>
                        TrustOutcome(entries[n], KeyList(entries[n]))]_vars

\* The genesis listed k0; its child rotated k0 out; the grandchild, signed
\* with k0, is untrusted.
C5_Witness ==
    /\ pc = "loop"
    /\ i = 3
    /\ entries[1].operation.rotation_keys = <<"k0", "k1">>
    /\ entries[2].operation.rotation_keys = <<"k2", "k1">>
    /\ entries[3].operation.prev = Some(entries[2].cid)
    /\ entries[3].operation.sig.signer = "k0"
    /\ signer_authority = None
    /\ errors = <<[kind |-> "TrustViolation", cid |-> entries[3].cid]>>

\* The prev lists k1 first and last: its child, signed with k1, has
\* authority 0.
C5_WitnessSmallest ==
    /\ pc = "loop"
    /\ i > 1
    /\ entries[i - 1].operation.rotation_keys = <<"k1", "k0", "k1">>
    /\ entries[i].operation.prev = Some(entries[i - 1].cid)
    /\ entries[i].operation.sig.signer = "k1"
    /\ signer_authority = Some(0)

\* A legacy create signed with its signing key has authority 1.
C5_WitnessLegacy ==
    /\ pc = "loop"
    /\ i = 1
    /\ entries[1].operation.type = "create"
    /\ entries[1].operation.sig.signer = entries[1].operation.signing_key
    /\ signer_authority = Some(1)
    /\ errors = <<>>

(***************************************************************************)
(* C8.  A signature whose text carries trailing '=' padding is accepted    *)
(* (padding stripped, malleable verification allowed) exactly when the     *)
(* entry was created strictly before 2023-11-30T18:50:14Z; an entry        *)
(* created at or after that instant raises InvalidSignatureEncoding{cid}   *)
(* and no TrustViolation for itself.                                       *)
(***************************************************************************)
Padded(e) == e.operation.sig.text = "padded"

BeforeMalleabilityCutoff(e) == e.created_at < 1701370214

EncodingError(e) == [kind |-> "InvalidSignatureEncoding", cid |-> e.cid]

TrustError(e) == [kind |-> "TrustViolation", cid |-> e.cid]

\* The keys validate checks the signature of entry n against; none when
\* the prev is a tombstone.
CheckedKeys(n) ==
    IF DeclaredPrev(entries[n]) = None THEN KeyList(entries[n])
    ELSE IF IsTombstone(entries[n - 1]) THEN <<>>
    ELSE KeyList(entries[n - 1])

\* Accepted before the cutoff: no encoding error, and the stripped
\* signature is trusted exactly when it verifies, high-S included.
AcceptedAsMalleable(n) ==
    /\ EncodingError(entries[n]) \notin Range(Raised)
    /\ ~IsTombstone(entries[IF n = 1 THEN 1 ELSE n - 1]) =>
          (TrustError(entries[n]) \in Range(Raised)
              <=> VerifyingIndices(entries[n], CheckedKeys(n)) = {})

C8_PaddedSignature ==
    [][\A n \in Positions :
          Visits(n) /\ Padded(entries[n]) =>
              IF BeforeMalleabilityCutoff(entries[n])
                  THEN AcceptedAsMalleable(n)
                  ELSE /\ EncodingError(entries[n]) \in Range(Raised)
                       /\ TrustError(entries[n]) \notin Range(Raised)]_vars

\* The entry before lists no rotation key; its child, created at the
\* cutoff with a padded signature, has raised both errors.
C8_Witness ==
    /\ pc = "loop"
    /\ i > 1
    /\ Padded(entries[i])
    /\ entries[i].created_at = 1701370214
    /\ entries[i].operation.prev = Some(entries[i - 1].cid)
    /\ entries[i - 1].operation.type = "plc_operation"
    /\ entries[i - 1].operation.rotation_keys = <<>>
    /\ EncodingError(entries[i]) \in Range(errors)
    /\ TrustError(entries[i]) \in Range(errors)

(***************************************************************************)
(* What does hold of padded signatures: the statement of C8 for the        *)
(* entries whose signature is checked against at least one rotation key    *)
(* or whose prev is a tombstone.                                           *)
(***************************************************************************)
PaddedSignatureWithKeys ==
    [][\A n \in Positions :
          /\ Visits(n)
          /\ Padded(entries[n])
          /\ CheckedKeys(n) # <<>> \/ (n > 1 /\ IsTombstone(entries[n - 1]))
          => IF BeforeMalleabilityCutoff(entries[n])
                 THEN AcceptedAsMalleable(n)
                 ELSE /\ EncodingError(entries[n]) \in Range(Raised)
                      /\ TrustError(entries[n]) \notin Range(Raised)]_vars

(***************************************************************************)
(* C9.  For an entry that declares prev = c: when no earlier list position *)
(* holds an entry with cid c but the entry itself or a later position      *)
(* does, validate raises PrevReferencesFuture{cid, prev}; when no entry of *)
(* the log has cid c it raises PrevMissing{prev}.  In both cases nothing   *)
(* else is raised for the entry beyond its self checks (no signature,      *)
(* timestamp or nullification check runs) and the entry is not recorded    *)
(* as a child of any parent.                                               *)
(***************************************************************************)
HeldEarlier(n, c) == \E k \in 1..(n - 1) : entries[k].cid = c

HeldLaterOrSelf(n, c) == \E k \in n..Len(entries) : entries[k].cid = c

\* The list positions a graph records as children.
RecordedChildren(graph) ==
    UNION {{ch.entry : ch \in Range(graph[c].nullified_children)}
           \cup {graph[c].active_child[k].entry :
                    k \in 1..Len(graph[c].active_child)} : c \in DOMAIN graph}

C9_UnresolvedPrev ==
    [][/\ \A n \in Positions :
             Visits(n) /\ DeclaredPrev(entries[n]) # None =>
                 LET c == DeclaredPrev(entries[n])[1]
                 IN  /\ ~HeldEarlier(n, c) /\ HeldLaterOrSelf(n, c) =>
                           /\ Raised = SelfErrors(entries[n])
                                 \o <<[kind |-> "PrevReferencesFuture",
                                       cid |-> entries[n].cid, prev |-> c]>>
                           /\ active_graph' = active_graph
                     /\ ~HeldEarlier(n, c) /\ ~HeldLaterOrSelf(n, c) =>
                           /\ Raised = SelfErrors(entries[n])
                                 \o <<[kind |-> "PrevMissing", prev |-> c]>>
                           /\ active_graph' = active_graph
       /\ \A k \in RecordedChildren(active_graph') :
             /\ DeclaredPrev(entries[k]) # None
             /\ HeldEarlier(k, DeclaredPrev(entries[k])[1])]_vars

\* The second entry, signed by no key, names a cid that only the third
\* entry claims: the one error is PrevReferencesFuture.
C9_Witness ==
    /\ pc = "loop"
    /\ i = 2
    /\ Len(entries) = 3
    /\ entries[2].operation.sig.signer = NoKey
    /\ entries[2].operation.prev = Some(entries[3].cid)
    /\ entries[2].cid # entries[3].cid
    /\ entries[1].cid # entries[3].cid
    /\ errors = <<[kind |-> "PrevReferencesFuture", cid |-> entries[2].cid,
                   prev |-> entries[3].cid]>>
    /\ active_graph = EmptyGraph

\* A nullified tombstone, signed by no key and older than every entry,
\* names a cid that no entry has: the one error is PrevMissing, also after
\* the final pass.
C9_WitnessMissing ==
    /\ Done
    /\ \E n \in Positions :
          /\ IsTombstone(entries[n])
          /\ entries[n].nullified
          /\ entries[n].operation.sig.signer = NoKey
          /\ ~HeldEarlier(n, entries[n].operation.prev[1])
          /\ ~HeldLaterOrSelf(n, entries[n].operation.prev[1])
          /\ errors = <<[kind |-> "PrevMissing", prev |-> entries[n].operation.prev[1]]>>

\* An entry that names its own cid as its prev.
C9_WitnessSelf ==
    /\ pc = "loop"
    /\ i > 1
    /\ entries[i].operation.prev = Some(entries[i].cid)
    /\ ~HeldEarlier(i, entries[i].cid)
    /\ [kind |-> "PrevReferencesFuture", cid |-> entries[i].cid,
        prev |-> entries[i].cid] \in Range(errors)

(***************************************************************************)
(* Vocabulary of the pending nullified children.                           *)
(***************************************************************************)
Cids == {entries[k].cid : k \in Positions}

PendingOf(graph, c) == IF c \in DOMAIN graph THEN graph[c].nullified_children ELSE <<>>

ActiveOf(graph, c) == IF c \in DOMAIN graph THEN graph[c].active_child ELSE <<>>

\* Every pending nullified child of the graph, as (parent cid, child).
AllPending(graph) ==
    UNION {{<<c, ch>> : ch \in Range(graph[c].nullified_children)} : c \in DOMAIN graph}

Occurrences(seq, x) == Cardinality({k \in 1..Len(seq) : seq[k] = x})

IncorrectlyNullified(e) == [kind |-> "EntryIncorrectlyNullified", cid |-> e.cid]

IncorrectlyActive(e) == [kind |-> "EntryIncorrectlyActive", cid |-> e.cid]

(***************************************************************************)
(* C11.  When the first active child E of an active prev P arrives, the    *)
(* pending nullified children of P that E supersedes are removed and the   *)
(* others stay, in their order; EntryIncorrectlyActive{E} is raised once   *)
(* when at least one stays, not at all otherwise; E is recorded as P's     *)
(* active child either way.  The final pass appends, after all per-entry   *)
(* errors, EntryIncorrectlyNullified once for every child still pending    *)
(* and nothing else.                                                       *)
(***************************************************************************)
C11_PendingChildren ==
    [][/\ \A n \in Positions : \A c \in Cids :
             VisitsActiveChild(n, c) /\ ActiveOf(active_graph, c) = None =>
                 LET NotSuperseded(s) ==
                         ~Supersedes(entries[n], signer_authority',
                                     entries[s.entry], s.authority)
                     kept == SelectSeq(PendingOf(active_graph, c), NotSuperseded)
                 IN  /\ PendingOf(active_graph', c) = kept
                     /\ ActiveOf(active_graph', c)
                            = Some([entry |-> n, authority |-> signer_authority'])
                     /\ SelectSeq(Raised, IsNullificationError)
                            = IF kept = <<>> THEN <<>>
                              ELSE <<IncorrectlyActive(entries[n])>>
       /\ pc = "loop" /\ pc' = "done" =>
             /\ SubSeq(errors', 1, Len(errors)) = errors
             /\ Len(Raised) = Cardinality(AllPending(active_graph))
             /\ \A x \in Range(Raised) :
                   \E pc_ch \in AllPending(active_graph) :
                       x = IncorrectlyNullified(entries[pc_ch[2].entry])
             /\ \A pc_ch \in AllPending(active_graph) :
                   Occurrences(Raised, IncorrectlyNullified(entries[pc_ch[2].entry]))
                       = Cardinality({q \in AllPending(active_graph) :
                             entries[q[2].entry].cid = entries[pc_ch[2].entry].cid})]_vars

\* Two nullified siblings were pending when the active child E arrived in
\* time, signed with the first key: E superseded the one the second key had
\* signed, not the one the first key had signed.  validate has reported E as
\* incorrectly active and, at the end, the sibling left pending.
C11_Witness ==
    /\ Done
    /\ Len(entries) = 4
    /\ entries[2].nullified /\ entries[2].operation.sig.signer = "k0"
    /\ entries[3].nullified /\ entries[3].operation.sig.signer = "k1"
    /\ ~entries[4].nullified /\ entries[4].operation.sig.signer = "k0"
    /\ \A k \in 2..4 : entries[k].operation.prev = Some(entries[1].cid)
    /\ active_graph[entries[1].cid].nullified_children = <<Child(2, Some(0))>>
    /\ active_graph[entries[1].cid].active_child = Some(Child(4, Some(0)))
    /\ errors = <<IncorrectlyActive(entries[4]), IncorrectlyNullified(entries[2])>>

(***************************************************************************)
(* C12.  For a nullified entry E whose prev P is not nullified: when P     *)
(* already has an active child, validate raises                            *)
(* EntryIncorrectlyNullified{E} on the spot and records E nowhere;         *)
(* otherwise it raises no nullification error and appends E, with its      *)
(* signer authority, to P's pending nullified children.                    *)
(***************************************************************************)
\* The step visits the nullified entry n whose located prev is active; c is
\* the cid of that prev.
VisitsNullifiedChild(n, c) ==
    /\ Visits(n)
    /\ entries[n].nullified
    /\ prev'.ok
    /\ IsSome(prev'.value)
    /\ ~entries[prev'.value[1]].nullified
    /\ c = entries[prev'.value[1]].cid

C12_NullifiedChild ==
    [][\A n \in Positions : \A c \in Cids :
          VisitsNullifiedChild(n, c) =>
              IF ActiveOf(active_graph, c) # None
                  THEN /\ SelectSeq(Raised, IsNullificationError)
                             = <<IncorrectlyNullified(entries[n])>>
                       /\ PendingOf(active_graph', c) = PendingOf(active_graph, c)
                       /\ ActiveOf(active_graph', c) = ActiveOf(active_graph, c)
                       /\ n \notin RecordedChildren(active_graph')
                  ELSE /\ SelectSeq(Raised, IsNullificationError) = <<>>
                       /\ PendingOf(active_graph', c)
                             = Append(PendingOf(active_graph, c),
                                      [entry |-> n, authority |-> signer_authority'])
                       /\ ActiveOf(active_graph', c) = None]_vars

\* The nullified E arrived after the active child of its prev: the one
\* error is raised at E's own step and E is not pending.
C12_Witness ==
    /\ pc = "loop"
    /\ i = 3
    /\ ~entries[2].nullified
    /\ entries[3].nullified
    /\ entries[2].operation.prev = Some(entries[1].cid)
    /\ entries[3].operation.prev = Some(entries[1].cid)
    /\ errors = <<IncorrectlyNullified(entries[3])>>
    /\ active_graph[entries[1].cid].nullified_children = <<>>
    /\ active_graph[entries[1].cid].active_child = Some(Child(2, Some(1)))

\* The nullified E arrived first and is pending.
C12_WitnessPending ==
    /\ pc = "loop"
    /\ i = 2
    /\ entries[2].nullified
    /\ errors = <<>>
    /\ active_graph[entries[1].cid]
          = [active_child |-> None, nullified_children |-> <<Child(2, Some(0))>>]

(***************************************************************************)
(* C13.  For an entry E whose prev P is marked nullified: an active E      *)
(* raises EntryIncorrectlyActive{E}, a nullified E raises no nullification *)
(* error, and in neither case is E recorded as a child of P.  Only the     *)
(* direct child is reported: the first active child of such an E raises    *)
(* no nullification error.                                                 *)
(***************************************************************************)
C13_ChildOfNullified ==
    [][/\ \A n \in Positions : \A x \in Positions :
             Visits(n) /\ Resolves(n, x) /\ entries[x].nullified =>
                 /\ SelectSeq(Raised, IsNullificationError)
                       = IF entries[n].nullified THEN <<>>
                         ELSE <<IncorrectlyActive(entries[n])>>
                 /\ PendingOf(active_graph', entries[x].cid)
                       = PendingOf(active_graph, entries[x].cid)
                 /\ ActiveOf(active_graph', entries[x].cid)
                       = ActiveOf(active_graph, entries[x].cid)
                 /\ n \notin RecordedChildren(active_graph')
       /\ \A f \in Positions : \A n \in Positions : \A x \in Positions :
             /\ Visits(f)
             /\ Resolves(f, n) /\ Resolves(n, x)
             /\ entries[x].nullified
             /\ ~entries[n].nullified
             /\ ~entries[f].nullified
             /\ \A k \in 1..(f - 1) : ~Resolves(k, n)
             => SelectSeq(Raised, IsNullificationError) = <<>>]_vars

\* The genesis is marked nullified, E is its active child and F the active
\* child of E: the genesis and E are reported, F is not.
C13_Witness ==
    /\ Done
    /\ Len(entries) = 3
    /\ entries[1].nullified
    /\ ~entries[2].nullified /\ entries[2].operation.prev = Some(entries[1].cid)
    /\ ~entries[3].nullified /\ entries[3].operation.prev = Some(entries[2].cid)
    /\ errors = <<IncorrectlyNullified(entries[1]), IncorrectlyActive(entries[2])>>

\* A nullified child of the nullified genesis: nothing is raised for it,
\* during the loop or in the final pass.
C13_WitnessNullified ==
    /\ Done
    /\ Len(entries) >= 2
    /\ entries[1].nullified
    /\ entries[2].nullified /\ entries[2].operation.prev = Some(entries[1].cid)
    /\ entries[2].operation.sig.signer = "k1"
    /\ \A e \in Range(errors) : e.cid # entries[2].cid

(***************************************************************************)
(* C14.  In every log for which validate returns Ok, each cid is the prev  *)
(* of at most one non-nullified entry, and the non-nullified entries form  *)
(* a single chain that starts at list entry 0: entry 0 is not nullified    *)
(* and declares no prev, and every other non-nullified entry declares as   *)
(* its prev the cid of a non-nullified entry earlier in the list.          *)
(***************************************************************************)
ActiveEntries == {n \in Positions : ~entries[n].nullified}

C14_SingleActiveChain ==
    Done /\ result = "Ok" =>
        /\ \A n \in ActiveEntries : \A m \in ActiveEntries :
              DeclaredPrev(entries[n]) # None
                  /\ DeclaredPrev(entries[n]) = DeclaredPrev(entries[m]) => n = m
        /\ 1 \in ActiveEntries
        /\ DeclaredPrev(entries[1]) = None
        /\ \A n \in ActiveEntries \ {1} :
              \E x \in ActiveEntries :
                  x < n /\ DeclaredPrev(entries[n]) = Some(entries[x].cid)

\* An accepted log with a fork: the second entry is nullified, the third is
\* the active child of the genesis.
C14_Witness ==
    /\ Done
    /\ result = "Ok"
    /\ Len(entries) = 3
    /\ ActiveEntries = {1, 3}
    /\ entries[2].operation.prev = Some(entries[1].cid)
    /\ entries[3].operation.prev = Some(entries[1].cid)

(***************************************************************************)
(* C15.  For an entry with a resolved prev validate raises                 *)
(* EntryCreatedBeforePrev{cid, prev} exactly when the entry's created_at   *)
(* is strictly earlier than the prev entry's (equal timestamps pass); it   *)
(* raises it for no other entry.  So in every accepted log created_at      *)
(* never decreases from an entry to an entry that names it as prev.        *)
(***************************************************************************)
CreatedBeforePrev(e, p) ==
    [kind |-> "EntryCreatedBeforePrev", cid |-> e.cid, prev |-> p.cid]

IsCreatedBeforePrev(e) == e.kind = "EntryCreatedBeforePrev"

C15_CreatedBeforePrev ==
    [][/\ \A n \in Positions :
             Visits(n) =>
                 /\ \A x \in Positions :
                       Resolves(n, x) =>
                           SelectSeq(Raised, IsCreatedBeforePrev)
                               = IF entries[n].created_at < entries[x].created_at
                                    THEN <<CreatedBeforePrev(entries[n], entries[x])>>
                                    ELSE <<>>
                 /\ (\A x \in Positions : ~Resolves(n, x)) =>
                       SelectSeq(Raised, IsCreatedBeforePrev) = <<>>
       /\ pc' = "done" /\ result' = "Ok" =>
             \A n \in Positions : \A x \in Positions :
                 DeclaredPrev(entries[n]) = Some(entries[x].cid) =>
                     entries[n].created_at >= entries[x].created_at]_vars

\* An entry created one second before its prev is the one entry reported.
C15_Witness ==
    /\ Done
    /\ Len(entries) >= 2
    /\ entries[2].operation.prev = Some(entries[1].cid)
    /\ entries[2].created_at = entries[1].created_at - 1
    /\ errors = <<CreatedBeforePrev(entries[2], entries[1])>>

\* A chain of entries with the same timestamp is accepted.
C15_WitnessEqual ==
    /\ Done
    /\ result = "Ok"
    /\ Len(entries) >= 3
    /\ \A n \in Positions : entries[n].created_at = entries[1].created_at

(***************************************************************************)
(* C16.  validate inspects the first list entry once, before the loop: an  *)
(* empty log yields exactly [AuditLogEmpty]; a first entry that is a       *)
(* tombstone or a change with a prev yields GenesisOperationNotCreate as   *)
(* the first error; a first entry that is a change without prev or a       *)
(* legacy create yields GenesisOperationInvalidDid{expected, actual}       *)
(* exactly when the DID derived from its signed bytes differs from the     *)
(* claimed DID.  The loop and the final pass raise none of the three.      *)
(***************************************************************************)
GenesisKinds ==
    {"AuditLogEmpty", "GenesisOperationNotCreate", "GenesisOperationInvalidDid"}

DerivedDid(e) == [method |-> "plc", digest |-> e.operation]

ExpectedGenesisErrors ==
    IF entries = <<>> THEN <<[kind |-> "AuditLogEmpty"]>>
    ELSE IF \/ IsTombstone(entries[1])
            \/ /\ entries[1].operation.type = "plc_operation"
               /\ entries[1].operation.prev # None
        THEN <<[kind |-> "GenesisOperationNotCreate"]>>
    ELSE IF DerivedDid(entries[1]) # did
        THEN <<[kind |-> "GenesisOperationInvalidDid", expected |-> did,
                actual |-> DerivedDid(entries[1])]>>
    ELSE <<>>

C16_GenesisCheck ==
    [][/\ pc # "loop" /\ pc' = "loop" => errors' = ExpectedGenesisErrors
       /\ pc = "loop" => \A x \in Range(Raised) : x.kind \notin GenesisKinds
       /\ pc' = "done" /\ entries = <<>> => errors' = <<[kind |-> "AuditLogEmpty"]>>]_vars

\* The genesis was removed from the list and the entry now first declares
\* no prev: the DID derived from it is not the claimed one.
C16_Witness ==
    /\ Done
    /\ entries # <<>>
    /\ DeclaredPrev(entries[1]) = None
    /\ errors # <<>>
    /\ errors[1] = [kind |-> "GenesisOperationInvalidDid", expected |-> did,
                    actual |-> DerivedDid(entries[1])]
    /\ \A k \in 2..Len(errors) : errors[k].kind \notin GenesisKinds

\* The genesis was removed and a tombstone is first in the list.
C16_WitnessNotCreate ==
    /\ Done
    /\ entries # <<>>
    /\ IsTombstone(entries[1])
    /\ errors # <<>>
    /\ errors[1] = [kind |-> "GenesisOperationNotCreate"]

\* The empty log.
C16_WitnessEmpty == Done /\ entries = <<>> /\ errors = <<[kind |-> "AuditLogEmpty"]>>

(***************************************************************************)
(* C17.  For every entry, whatever the other checks find, validate raises  *)
(* EntryCidInvalid{cid: claimed, actual} exactly when the claimed cid      *)
(* differs from the CID recomputed over the signed operation, and          *)
(* EntryDidMismatch{cid} exactly when the entry's did differs from the     *)
(* claimed DID, before any other error of the entry.  An entry with a      *)
(* wrong claimed cid is found by its claimed cid (and not by its           *)
(* recomputed one) when a later entry names it as prev.                    *)
(***************************************************************************)
IsSelfError(e) == e.kind \in {"EntryCidInvalid", "EntryDidMismatch"}

C17_SelfChecks ==
    [][\A n \in Positions :
          Visits(n) =>
              /\ SelectSeq(Raised, IsSelfError) = SelfErrors(entries[n])
              /\ SubSeq(Raised, 1, Len(SelfErrors(entries[n]))) = SelfErrors(entries[n])
              /\ \A x \in Positions :
                    Resolves(n, x) => prev' = [ok |-> TRUE, value |-> Some(x)]
              /\ (\A x \in Positions : ~Resolves(n, x)) /\ DeclaredPrev(entries[n]) # None
                    => ~prev'.ok]_vars

\* The second entry claims a cid that is not its own; the third names that
\* claimed cid as its prev and is a faultless child.
C17_Witness ==
    /\ Done
    /\ Len(entries) = 3
    /\ CidWrong(entries[2])
    /\ entries[3].operation.prev = Some(entries[2].cid)
    /\ prev = [ok |-> TRUE, value |-> Some(2)]
    /\ errors = SelfErrors(entries[2])
    /\ Len(errors) = 1

\* An entry with both faults and an unresolved prev.
C17_WitnessBoth ==
    /\ pc = "loop"
    /\ i > 1
    /\ ~prev.ok
    /\ Len(SelfErrors(entries[i])) = 2
    /\ SubSeq(errors, Len(errors) - 2, Len(errors) - 1) = SelfErrors(entries[i])

(***************************************************************************)
(* C18.  An entry that declares no prev (a legacy create, or a change with *)
(* null prev) raises NonGenesisCreate{cid} exactly when it is not first in *)
(* the list and EntryIncorrectlyNullified{cid} exactly when it is marked   *)
(* nullified, the one independently of the other.  Its signature is        *)
(* checked against its own rotation keys, and it is not recorded as a      *)
(* child of any parent.                                                    *)
(***************************************************************************)
IsCreateError(e) == e.kind = "NonGenesisCreate" \/ IsNullificationError(e)

C18_EntryWithoutPrev ==
    [][\A n \in Positions :
          Visits(n) /\ DeclaredPrev(entries[n]) = None =>
              /\ SelectSeq(Raised, IsCreateError)
                    = (IF n # 1
                          THEN <<[kind |-> "NonGenesisCreate", cid |-> entries[n].cid]>>
                          ELSE <<>>)
                      \o (IF entries[n].nullified
                             THEN <<IncorrectlyNullified(entries[n])>> ELSE <<>>)
              /\ Decodable(entries[n]) => TrustOutcome(entries[n], KeyList(entries[n]))
              /\ active_graph' = active_graph
              /\ n \notin RecordedChildren(active_graph')]_vars

\* A nullified change without prev in the second place, signed with the
\* second of its own rotation keys: authority 1 and both errors of C18.
C18_Witness ==
    /\ pc = "loop"
    /\ i = 2
    /\ entries[2].operation.prev = None
    /\ entries[2].nullified
    /\ errors = <<[kind |-> "NonGenesisCreate", cid |-> entries[2].cid],
                  IncorrectlyNullified(entries[2])>>
    /\ signer_authority = Some(1)
    /\ active_graph = EmptyGraph

\* A legacy create that is not first in the list.
C18_WitnessLegacy ==
    /\ pc = "loop"
    /\ i > 1
    /\ entries[i].operation.type = "create"
    /\ [kind |-> "NonGenesisCreate", cid |-> entries[i].cid] \in Range(errors)

(***************************************************************************)
(* C19.  Errors are reported in the list order of the entries that raise   *)
(* them, with the error of the first-entry (genesis) check first: validate *)
(* only ever appends to its error list, the genesis check's error is       *)
(* pushed before the loop and no later step pushes one of its kinds, and   *)
(* the errors pushed while the loop visits list position n name entry n    *)
(* (a nullification error may name an entry at or before n).  For a valid  *)
(* chain of three entries whose first two are swapped in the list, prev    *)
(* pointers kept, the result is exactly [GenesisOperationNotCreate,        *)
(* PrevReferencesFuture{cid: list entry 0, prev: list entry 1},            *)
(* NonGenesisCreate{cid: list entry 1}], nothing for the third entry.      *)
(***************************************************************************)
RaisedBy(e, n) ==
    /\ e.kind \notin GenesisKinds
    /\ IF e.kind = "PrevMissing" THEN Some(e.prev) = DeclaredPrev(entries[n])
       ELSE IF IsNullificationError(e) THEN \E k \in 1..n : e.cid = entries[k].cid
       ELSE e.cid = entries[n].cid

\* A valid chain genesis -> update -> (update or tombstone), the first two
\* exchanged in the list.
SwappedChain ==
    /\ Len(entries) = 3
    /\ DeclaredPrev(entries[2]) = None
    /\ DerivedDid(entries[2]) = did
    /\ ~IsTombstone(entries[1])
    /\ DeclaredPrev(entries[1]) = Some(entries[2].cid)
    /\ DeclaredPrev(entries[3]) = Some(entries[1].cid)

SwappedChainErrors ==
    <<[kind |-> "GenesisOperationNotCreate"],
      [kind |-> "PrevReferencesFuture", cid |-> entries[1].cid, prev |-> entries[2].cid],
      [kind |-> "NonGenesisCreate", cid |-> entries[2].cid]>>

C19_ListOrder ==
    [][/\ pc \in {"build", "edited"} /\ pc' = "loop" =>
              /\ errors = <<>>
              /\ Len(errors') <= 1
              /\ \A e \in Range(errors') : e.kind \in GenesisKinds
       /\ pc = "loop" =>
              /\ Len(errors) <= Len(errors')
              /\ SubSeq(errors', 1, Len(errors)) = errors
              /\ \A e \in Range(Raised) : e.kind \notin GenesisKinds
       /\ \A n \in Positions :
              Visits(n) => \A e \in Range(Raised) : RaisedBy(e, n)
       /\ Visits(1) /\ SwappedChain => Raised = <<SwappedChainErrors[2]>>
       /\ Visits(2) /\ SwappedChain => Raised = <<SwappedChainErrors[3]>>
       /\ Visits(3) /\ SwappedChain => Raised = <<>>
       /\ pc' = "done" /\ SwappedChain => errors' = SwappedChainErrors]_vars

\* The scenario of the test order_swapped, validated to the end.
C19_Witness ==
    /\ Done
    /\ SwappedChain
    /\ entries[2].operation.type = "plc_operation"
    /\ errors = SwappedChainErrors
    /\ result = "Err"

(***************************************************************************)
(* C20.  Validator determinism: the set of errors validate returns, and    *)
(* whether it returns Ok, is a function of the log (entries, their order)  *)
(* and the claimed DID alone.  The one choice validate does not control,   *)
(* the order in which the final loop meets the parents of active_graph,    *)
(* changes neither.                                                        *)
(***************************************************************************)
\* The errors pushed by the loop from position n on, as a set, and the graph
\* it leaves.
RECURSIVE LoopOutcome(_, _)
LoopOutcome(graph, n) ==
    IF n > Len(entries) THEN [errors |-> {}, graph |-> graph]
    ELSE LET r    == validate_entry(entries, did, graph, n)
             rest == LoopOutcome(r.graph, n + 1)
         IN  [errors |-> Range(r.errors) \cup rest.errors, graph |-> rest.graph]

\* The set of errors of the log, no order of the parents chosen.
ErrorSet ==
    LET loop == LoopOutcome(EmptyGraph, 1)
    IN  Range(genesis_errors(entries, did))
            \cup loop.errors
            \cup {IncorrectlyNullified(entries[x[2].entry]) : x \in AllPending(loop.graph)}

C20_Deterministic ==
    [][pc = "loop" /\ pc' = "done" =>
          /\ Range(errors') = ErrorSet
          /\ result' = (IF ErrorSet = {} THEN "Ok" ELSE "Err")
          /\ \A order \in Orders(DOMAIN active_graph) :
                LET other == errors \o settle_errors(entries, active_graph, order)
                IN  /\ Range(other) = Range(errors')
                    /\ Len(other) = Len(errors')
                    /\ (other = <<>>) <=> (result' = "Ok")]_vars

\* Two parents have children left pending: the final loop can report them
\* in two orders, as two different sequences of the same errors.
C20_Witness ==
    /\ Done
    /\ result = "Err"
    /\ \E o1 \in Orders(DOMAIN active_graph), o2 \in Orders(DOMAIN active_graph) :
          /\ settle_errors(entries, active_graph, o1)
                # settle_errors(entries, active_graph, o2)
          /\ Range(settle_errors(entries, active_graph, o1))
                = Range(settle_errors(entries, active_graph, o2))

\* A log validate accepts.
C20_WitnessOk == Done /\ result = "Ok" /\ Len(entries) > 1 /\ ErrorSet = {}

(***************************************************************************)
(* Vocabulary of the mirror's properties.                                  *)
(***************************************************************************)
\* The store holds a plc_log row with this cid.
Stored(d, c) == \E k \in 1..Len(d.plc_log) : d.plc_log[k].cid = to_bytes(c)

AllStored(d, batch) == \A k \in 1..Len(batch) : Stored(d, batch[k].cid)

\* A step that ends a Db::import with Ok / with an error.
Commits == IsSome(tx) /\ tx' = None /\ import_result'[1].ok

Aborts == IsSome(tx) /\ tx' = None /\ ~import_result'[1].ok

NoNewRow(d, e) ==
    /\ Len(e.identity) = Len(d.identity)
    /\ Len(e.key) = Len(d.key)
    /\ Len(e.atproto_pds) = Len(d.atproto_pds)
    /\ Len(e.plc_log) = Len(d.plc_log)
    /\ e.rotation_keys = d.rotation_keys
    /\ e.verification_methods = d.verification_methods
    /\ e.services = d.services

(***************************************************************************)
(* C21.  Importing a batch whose entries are all already stored (their     *)
(* cids are in plc_log) adds no row to identity, key, atproto_pds,         *)
(* plc_log, rotation_keys, verification_methods or services, neither in    *)
(* the transaction nor in what it commits, and get_last_created returns    *)
(* the same value before and after.                                        *)
(***************************************************************************)
C21_ReimportAddsNothing ==
    [][/\ IsSome(tx) /\ IsSome(tx') /\ AllStored(db, tx[1].entries)
              => NoNewRow(db, tx'[1].db)
       /\ Commits /\ AllStored(db, tx[1].entries)
              => /\ NoNewRow(db, db')
                 /\ db' = db
                 /\ get_last_created(db') = get_last_created(db)]_vars

\* A batch of two stored entries has gone through the loop a second time
\* and is about to commit: the transaction holds what the store holds.
C21_Witness ==
    /\ IsSome(tx)
    /\ Len(tx[1].entries) = 2
    /\ tx[1].n = 2
    /\ AllStored(db, tx[1].entries)
    /\ tx[1].db = db
    /\ tx[1].entries[2].operation.type = "plc_operation"
    /\ get_last_created(db) # None

(***************************************************************************)
(* C22.  Db::import applies a batch in one transaction.  While it runs the *)
(* store is unchanged.  When it returns Ok, every entry of the batch is in *)
(* plc_log with all its satellite rows, published by the one commit.  When *)
(* an insertion fails (an entry whose prev cid is in plc_log neither from  *)
(* before nor from the batch so far) or the store fails, nothing of the    *)
(* batch persists, the store is as before the call, and import returns an  *)
(* error.                                                                  *)
(***************************************************************************)
EntryId(d, c) == CHOOSE k \in 1..Len(d.plc_log) : d.plc_log[k].cid = to_bytes(c)

\* The entry is stored with the satellite rows its operation calls for.
StoredWhole(d, e) ==
    /\ Stored(d, e.cid)
    /\ LET id == EntryId(d, e.cid)
           op == e.operation
       IN  /\ {r.authority : r \in {x \in d.rotation_keys : x.entry = id}}
                 = {a - 1 : a \in 1..Len(rotation_keys(op))}
           /\ op.type = "plc_operation" =>
                 /\ {r.service : r \in {x \in d.verification_methods : x.entry = id}}
                       = DOMAIN op.payload.verification_methods
                             \ {ATPROTO_VERIFICATION_METHOD}
                 /\ {r.kind : r \in {x \in d.services : x.entry = id}}
                       = {k \in DOMAIN op.payload.services :
                             ~is_atproto_pds(k, op.payload.services[k])}

PrevUnknown(d, e) == IsSome(e.operation.prev) /\ ~Stored(d, e.operation.prev[1])

C22_OneTransaction ==
    [][/\ IsSome(tx) /\ IsSome(tx') => db' = db
       /\ tx = None /\ IsSome(tx') => db' = db
       /\ Aborts => db' = db
       /\ Commits =>
              /\ \A k \in 1..Len(tx[1].entries) : StoredWhole(db', tx[1].entries[k])
              /\ \A k \in 1..Len(db.plc_log) : db'.plc_log[k] = db.plc_log[k]
              /\ tx[1].entries # <<>> =>
                     import_result'[1].value
                        = Some(<<tx[1].entries[Len(tx[1].entries)].created_at,
                                 Len(tx[1].entries)>>)
       /\ (/\ IsSome(tx)
           /\ tx[1].n < Len(tx[1].entries)
           /\ PrevUnknown(tx[1].db, tx[1].entries[tx[1].n + 1]))
              => tx' = None /\ ~import_result'[1].ok /\ db' = db]_vars

\* The first entry of a batch is inserted in the transaction, and the
\* second names a prev that is not in plc_log: the import is about to fail.
C22_Witness ==
    /\ IsSome(tx)
    /\ tx[1].n = 1
    /\ Len(tx[1].entries) = 2
    /\ Len(tx[1].db.plc_log) = Len(db.plc_log) + 1
    /\ PrevUnknown(tx[1].db, tx[1].entries[2])

\* An import has failed on such an entry; the store holds what it held.
C22_WitnessFailed ==
    /\ tx = None
    /\ import_result = Some([ok |-> FALSE, err |-> "QueryReturnedNoRows"])
    /\ Len(db.plc_log) = 1

\* A batch of two new entries, one with satellite rows, is committed.
C22_WitnessCommitted ==
    /\ tx = None
    /\ IsSome(import_result)
    /\ import_result[1].ok
    /\ Len(db.plc_log) = 2
    /\ db.verification_methods # {}
    /\ db.services # {}

(***************************************************************************)
(* C23.  Every LogEntry that get_audit_log, get_last_active_entry or       *)
(* export returns satisfies cid(operation) = entry.cid.  A stored row      *)
(* whose reassembled operation hashes to another CID than the stored cid   *)
(* is never returned: it makes the whole read return an error.             *)
(***************************************************************************)
Assembles == reader.pc = "hydrate" /\ reader'.pc = "idle"

\* The entries a finished read returned.
Returned(r) ==
    IF r.result.ok THEN Range(r.result.value) ELSE {}

\* The row reassembles to an operation, but not to the one its cid names.
HashesElsewhere(h) ==
    assemble_content(h).ok /\ cid(assemble_content(h).value) # h.entry.cid

C23_ReadsVerifyCid ==
    [][Assembles =>
          /\ \A e \in Returned(response'[1]) : cid(e.operation) = e.cid
          /\ (\E k \in 1..Len(reader.hydrated) : HashesElsewhere(reader.hydrated[k]))
                => ~response'[1].result.ok
          /\ response'[1].result.ok
                => Cardinality(Returned(response'[1])) = Len(reader.rows)]_vars

\* The audit log of the second identity is asked for when both its entries
\* are stored; the update, stored without its unknown field, hashes to
\* another CID and the read fails.
C23_Witness ==
    /\ IsSome(response)
    /\ response[1].call = [name |-> "get_audit_log", did |-> BobDid]
    /\ Cardinality(rows_of_did(db, BobDid)) = 2
    /\ response[1].result = [ok |-> FALSE, err |-> "CID mismatch"]

\* A read that returns two verified entries.
C23_WitnessOk ==
    /\ IsSome(response)
    /\ response[1].result.ok
    /\ response[1].call.name = "get_audit_log"
    /\ Len(response[1].result.value) = 3


(***************************************************************************)
(* C24.  Every entry Db::import accepts reads back: assembling its stored  *)
(* row succeeds (the recomputed CID is the stored cid) and yields an entry *)
(* whose operation, sig, nullified flag and created_at are the imported    *)
(* ones, also when the operation is a change with a field this client does *)
(* not know, when the sig is padded, and when the atproto_pds service has  *)
(* another type than AtprotoPersonalDataServer.                            *)
(***************************************************************************)
\* Entry::from_row, hydrate and assemble on the row that holds this cid.
ReadBack(d, c) == assemble(hydrate(d, from_row(d, EntryId(d, c))))

HasUnknownFields(op) ==
    op.type = "plc_operation" /\ op.payload.extra_fields # EmptyMap

C24_ReassemblyFidelity ==
    [][Commits =>
          \A k \in 1..Len(tx[1].entries) :
              ReadBack(db', tx[1].entries[k].cid)
                  = [ok |-> TRUE, value |-> tx[1].entries[k]]]_vars

\* What does hold: an entry stored by this import whose operation has only
\* the fields the client knows reads back as imported.
C24_KnownFieldsReadBack ==
    [][Commits =>
          \A k \in 1..Len(tx[1].entries) :
              LET e == tx[1].entries[k]
              IN  ~HasUnknownFields(e.operation) /\ ~Stored(db, e.cid)
                      => ReadBack(db', e.cid) = [ok |-> TRUE, value |-> e]]_vars

\* The audit log of the first identity is read when its creation (padded
\* sig) and its update (a PDS service of another type, a second
\* verification method) are stored: both come back as imported.
C24_Witness ==
    /\ IsSome(response)
    /\ response[1].call = [name |-> "get_audit_log", did |-> AliceDid]
    /\ response[1].result = [ok |-> TRUE, value |-> <<Upstream[1], Upstream[3]>>]

\* The update of the second identity, which carries an unknown field, has
\* been imported with Ok and its row does not read back.
C24_WitnessUnknownField ==
    /\ tx = None
    /\ IsSome(import_result)
    /\ import_result[1].ok
    /\ Stored(db, Upstream[4].cid)
    /\ HasUnknownFields(Upstream[4].operation)
    /\ ReadBack(db, Upstream[4].cid) = [ok |-> FALSE, err |-> "CID mismatch"]


(***************************************************************************)
(* C25.  An export with after = t and bounded count n returns at most n    *)
(* entries, each created after t, in non-decreasing created_at order, and  *)
(* they are the earliest stored entries after t: a stored entry created    *)
(* after t is left out only when n entries are returned and none of them   *)
(* was created later than it.                                              *)
(***************************************************************************)
\* The entries of the store as the rows hold them.
StoredAt(d) == {parse(d.plc_log[k].created_at) : k \in 1..Len(d.plc_log)}

ExportReturns ==
    /\ Assembles
    /\ reader.call.name = "export"
    /\ IsSome(reader.call.params.after)
    /\ response'[1].result.ok

\* a is after b: as instants, or as the texts they are written as.
IsLater(as_text, a, b) ==
    IF as_text THEN text_less(as_str(b), as_str(a)) ELSE a.dt > b.dt

ExportMonotone(as_text) ==
    LET t   == reader.call.params.after[1]
        n   == bounded_count(reader.call.params)
        out == response'[1].result.value
    IN  /\ Len(out) <= n
        /\ \A k \in 1..Len(out) : IsLater(as_text, out[k].created_at, t)
        /\ \A a \in 1..Len(out), b \in 1..Len(out) :
              a < b => ~IsLater(as_text, out[a].created_at, out[b].created_at)
        /\ \A at \in StoredAt(db) :
              IsLater(as_text, at, t) /\ (\A k \in 1..Len(out) : out[k].created_at # at)
                  => /\ Len(out) = n
                     /\ \A k \in 1..Len(out) : ~IsLater(as_text, out[k].created_at, at)

C25_ExportMonotonicity == [][ExportReturns => ExportMonotone(FALSE)]_vars

\* What does hold: the same with created_at and t compared as the texts
\* they are written as.
C25_ExportMonotoneAsText == [][ExportReturns => ExportMonotone(TRUE)]_vars

\* An export after second 1, written without a fraction, has returned the
\* entry of second 2 alone although the store holds an entry of second 1.5.
C25_Witness ==
    /\ IsSome(response)
    /\ response[1].call.name = "export"
    /\ response[1].call.params = ExportParams(Some(2), Some(DatetimeWhole(1)))
    /\ Datetime(1, 5) \in StoredAt(db)
    /\ response[1].result.ok
    /\ Len(response[1].result.value) = 1
    /\ response[1].result.value[1].created_at = Datetime(2, 0)

\* An export after a time written as the store writes it returns the two
\* entries that follow.
C25_WitnessSameForm ==
    /\ IsSome(response)
    /\ response[1].call.name = "export"
    /\ response[1].call.params = ExportParams(Some(2), Some(Datetime(1, 0)))
    /\ response[1].result.ok
    /\ Len(response[1].result.value) = 2
    /\ response[1].result.value[1].created_at = Datetime(1, 5)


(***************************************************************************)
(* C26.  The importer starts with after = get_last_created().  When an     *)
(* import of a non-empty batch succeeds, after becomes the created_at of   *)
(* the batch's last entry; after a failed export or an empty batch, after  *)
(* is unchanged.  The importer sleeps before its next request exactly when *)
(* fewer entries than a full page were imported in the iteration, and asks *)
(* again at once after a full page.  The registry honouring export         *)
(* monotonicity, after never goes back in time.                            *)
(***************************************************************************)
\* The importer ends an iteration of its loop and goes on.
EndsIteration ==
    /\ importer \in {"export", "import"}
    /\ importer' \in {"sleep", "export"}
    /\ importer' # importer

ImportedOk == importer = "import" /\ tx = None /\ IsSome(import_result) /\ import_result[1].ok

C26_ImporterCursor ==
    [][/\ importer = "idle" /\ importer' # "idle" =>
              after' = get_last_created(db) /\ importer' = "export"
       /\ Commits /\ tx[1].entries # <<>> =>
              import_result'[1].value
                 = Some(<<tx[1].entries[Len(tx[1].entries)].created_at,
                          Len(tx[1].entries)>>)
       /\ Commits /\ tx[1].entries = <<>> => import_result'[1].value = None
       /\ EndsIteration /\ ImportedOk /\ IsSome(import_result[1].value) =>
              /\ after' = Some(import_result[1].value[1][1])
              /\ imported' = import_result[1].value[1][2]
       /\ EndsIteration /\ ImportedOk /\ import_result[1].value = None =>
              after' = after /\ imported' = 0
       /\ EndsIteration /\ importer = "export" => after' = after /\ imported' = 0
       /\ EndsIteration => (importer' = "sleep" <=> imported' < ExportCount)
       /\ importer # "idle" =>
              /\ IsSome(after) => IsSome(after')
              /\ IsSome(after) => after'[1].dt >= after[1].dt]_vars

\* A full page has been imported: the cursor is on its last entry and the
\* importer is about to ask again, without sleep.
C26_Witness ==
    /\ importer = "export"
    /\ imported = ExportCount
    /\ IsSome(after)
    /\ after = get_last_created(db)
    /\ Len(db.plc_log) > ExportCount

\* The importer sleeps after a page that was not full.
C26_WitnessSleep ==
    /\ importer = "sleep"
    /\ imported > 0
    /\ imported < ExportCount
    /\ after = get_last_created(db)

\* The importer sleeps after a failed export or an empty page, the cursor
\* where it was.
C26_WitnessCaughtUp ==
    /\ importer = "sleep"
    /\ imported = 0
    /\ IsSome(after)
    /\ Len(db.plc_log) = Len(Upstream) - 1


(***************************************************************************)
(* C27.  The importer keeps running: after a failed export request and     *)
(* after a failed import it logs the failure, goes on with its loop and    *)
(* asks again in a later iteration.  No failure makes it stop importing.   *)
(***************************************************************************)
ExportFailed ==
    importer = "export" /\ tx' = None /\ ~IsSome(import_result') /\ importer' # "export"

ImportFailed ==
    /\ importer = "import"
    /\ tx = None
    /\ IsSome(import_result)
    /\ ~import_result[1].ok
    /\ ~pool_closed
    /\ importer' # "import"

C27_ImporterKeepsRunning ==
    [][ExportFailed \/ ImportFailed => importer' \in {"sleep", "export"}]_vars

\* What does hold: after a failed export the importer sleeps and asks
\* again, with the cursor it had.
C27_RetriesAfterFailedExport ==
    [][ExportFailed => importer' = "sleep" /\ after' = after /\ db' = db]_vars

\* An import has failed and the importer task has ended, while the
\* registry holds entries the mirror has not.
C27_Witness ==
    /\ importer = "stopped"
    /\ tx = None
    /\ Len(db.plc_log) < Len(Upstream)

\* The importer asks again after a failed export.
C27_WitnessRetry ==
    /\ importer = "export"
    /\ imported = 0
    /\ db = EmptyDb
    /\ after = None
    /\ import_result = None


(***************************************************************************)
(* C28.  A reader working while an import is in progress or commits never  *)
(* observes part of a batch: every plc_log row its SELECT yields is a      *)
(* committed row, none of a transaction in progress or rolled back, and    *)
(* comes with all the rotation_keys, verification_methods and services     *)
(* rows of its entry, whenever the row is hydrated.  What the read returns *)
(* is what assembling its rows on the committed store returns: no read     *)
(* fails reassembly because of a concurrent import.                        *)
(***************************************************************************)
RegistryEntries == Range(Upstream) \cup Range(UpstreamRevoked)

\* The row is a committed plc_log row of an entry that is stored whole.
CommittedWhole(d, row) ==
    /\ row.entry_id \in 1..Len(d.plc_log)
    /\ from_row(d, row.entry_id) = row
    /\ \E e \in RegistryEntries : e.cid = row.cid /\ StoredWhole(d, e)

\* The hydrated row holds what the operation of its entry lists.
HydratedWhole(h) ==
    \E e \in RegistryEntries :
        /\ e.cid = h.entry.cid
        /\ h.rotation_keys = rotation_keys(e.operation)
        /\ e.operation.type = "plc_operation" =>
              /\ DOMAIN h.verification_methods
                    = DOMAIN e.operation.payload.verification_methods
                          \ {ATPROTO_VERIFICATION_METHOD}
              /\ DOMAIN h.services
                    = {k \in DOMAIN e.operation.payload.services :
                          ~is_atproto_pds(k, e.operation.payload.services[k])}

C28_NoPartialBatch ==
    [][/\ reader'.pc = "hydrate" =>
              /\ \A k \in 1..Len(reader'.rows) : CommittedWhole(db', reader'.rows[k])
              /\ \A k \in 1..Len(reader'.hydrated) :
                    /\ reader'.hydrated[k] = hydrate(db', reader'.rows[k])
                    /\ HydratedWhole(reader'.hydrated[k])
       /\ Assembles =>
              response'[1].result
                 = returned(reader.call,
                            [k \in 1..Len(reader.rows) |-> hydrate(db', reader.rows[k])])]_vars

\* A read has selected a row and hydrates it while an import, begun after
\* the SELECT, has inserted an entry of the same identity in its
\* transaction.
C28_Witness ==
    /\ reader.pc = "hydrate"
    /\ reader.call = [name |-> "get_audit_log", did |-> AliceDid]
    /\ Len(reader.rows) = 1
    /\ Len(reader.hydrated) = 1
    /\ IsSome(tx)
    /\ tx[1].n > 0
    /\ Cardinality(rows_of_did(tx[1].db, AliceDid)) > 1
    /\ Cardinality(rows_of_did(db, AliceDid)) = 1

\* The import has committed between the SELECT and the end of the read:
\* the read returns the one entry it selected.
C28_WitnessCommitted ==
    /\ IsSome(response)
    /\ response[1].call = [name |-> "get_audit_log", did |-> AliceDid]
    /\ response[1].result.ok
    /\ Len(response[1].result.value) = 1
    /\ Cardinality(rows_of_did(db, AliceDid)) = 3
    /\ IsSome(import_result)


(***************************************************************************)
(* C29.  GET /:did/data and GET /:did answer 404 when the DID has no       *)
(* stored entry that is not nullified, 410 when its latest entry that is   *)
(* not nullified is a tombstone, and 200 with the state of that entry (the *)
(* DID document of that state, for GET /:did) otherwise.  A tombstone that *)
(* is marked nullified does not cause 410.                                 *)
(***************************************************************************)
Responds ==
    /\ reader.pc = "hydrate"
    /\ reader'.pc = "idle"
    /\ "route" \in DOMAIN reader.call
    /\ reader.call.route \in {"/:did", "/:did/data"}

\* The rows of the DID that are not nullified, and the latest of them.
ActiveRows(d, entry_did) == {k \in rows_of_did(d, entry_did) : ~d.plc_log[k].nullified}

LatestActive(d, entry_did) ==
    {k \in ActiveRows(d, entry_did) :
        \A m \in ActiveRows(d, entry_did) :
            parse(d.plc_log[m].created_at).dt <= parse(d.plc_log[k].created_at).dt}

\* The operation the registry published under the cid of this row.
Published(d, k) ==
    (CHOOSE e \in RegistryEntries : to_bytes(e.cid) = d.plc_log[k].cid).operation

\* The state of the entry of row k.
StateOf(d, k) ==
    into_state(LogEntry(d.identity[d.plc_log[k].identity], Published(d, k),
                        read_bytes(d.plc_log[k].cid), d.plc_log[k].nullified,
                        parse(d.plc_log[k].created_at)))

ExpectedStatus(d, entry_did) ==
    IF ActiveRows(d, entry_did) = {} THEN NOT_FOUND
    ELSE IF \A k \in LatestActive(d, entry_did) : Published(d, k).type = "plc_tombstone"
        THEN GONE
    ELSE OK

BodyIsState(d, call, body) ==
    \E k \in LatestActive(d, call.did) :
        /\ StateOf(d, k) # None
        /\ body = [ok |-> IF call.route = "/:did/data" THEN StateOf(d, k)[1]
                          ELSE into_doc(StateOf(d, k)[1]).value]

C29_DataStatus ==
    [][Responds =>
          /\ response'[1].http.status = ExpectedStatus(db, reader.call.did)
          /\ response'[1].http.status = OK =>
                BodyIsState(db, reader.call, response'[1].http.body)]_vars

\* What does hold: the status is as stated, and the body is the state
\* whenever get_last_active_entry returns Ok.
C29_StatusAsStated ==
    [][Responds =>
          /\ response'[1].http.status = ExpectedStatus(db, reader.call.did)
          /\ response'[1].http.status = OK /\ response'[1].result.ok =>
                BodyIsState(db, reader.call, response'[1].http.body)]_vars

\* The second identity is asked for when its update, which carries an
\* unknown field, is its latest entry: the answer is 200 with an error.
C29_Witness ==
    /\ IsSome(response)
    /\ response[1].call = [name |-> "get_last_active_entry", did |-> BobDid,
                           route |-> "/:did/data"]
    /\ response[1].http = [status |-> OK, body |-> [message |-> "CID mismatch"]]

\* 410 for the first identity once its tombstone is stored.
C29_WitnessGone ==
    /\ IsSome(response)
    /\ response[1].call.did = AliceDid
    /\ response[1].http.status = GONE
    /\ Cardinality(rows_of_did(db, AliceDid)) = 3

\* The tombstone of the first identity is stored as nullified: 200 with
\* the state of the update before it.
C29_WitnessRevoked ==
    /\ IsSome(response)
    /\ response[1].call.did = AliceDid
    /\ response[1].call.route = "/:did/data"
    /\ Cardinality(rows_of_did(db, AliceDid)) = 3
    /\ response[1].http = [status |-> OK, body |-> [ok |-> into_state(Upstream[3])[1]]]

\* 404 for an identity the store does not hold.
C29_WitnessNotFound ==
    /\ IsSome(response)
    /\ response[1].call.did = BobDid
    /\ response[1].http.status = NOT_FOUND
    /\ db.plc_log # <<>>


(***************************************************************************)
(* C30.  A sweep that runs to completion audits every identity of the      *)
(* store exactly once.  The pages list_dids returns neither skip nor       *)
(* repeat an identity: the identities listed so far are those with ids 1   *)
(* to the cursor, each in one batch.  The finished signal is sent only     *)
(* when the page after the cursor was empty (no identity remains), every   *)
(* batch task spawned has ended and has been collected, and each listed    *)
(* identity has had its audit log read once and, when the read succeeded,  *)
(* validated.  (Once the pool is closed the sweep is cut short: a listed   *)
(* identity may be left unaudited, none is audited twice, and the signal   *)
(* is sent only if all were audited.)                                      *)
(***************************************************************************)
Cursor == IF IsSome(auditor.after) THEN auditor.after[1] ELSE 0

\* How often the identity with this id has been audited, and how often it
\* waits in a batch task.
TimesAudited(a, id) == Cardinality({k \in 1..Len(a.audits) : a.audits[k].id = id})

TimesWaiting(a, id) ==
    Cardinality({<<t, k>> \in (1..Len(a.auditing)) \X (1..ListCount) :
                    /\ k <= Len(a.auditing[t].dids)
                    /\ k > a.auditing[t].n
                    /\ a.auditing[t].dids[k][1] = id})

ReadsBack(d, entry_did) ==
    \A o \in get_audit_log(d, entry_did) :
        assemble_all([k \in 1..Len(o) |-> hydrate(d, from_row(d, o[k]))]).ok

C30_WitnessParallel ==
    /\ auditor.pc # "idle"
    /\ Len(auditor.auditing) = 2
    /\ auditor.auditing[1].n = 0
    /\ auditor.auditing[2].n = 0
    /\ auditor.audits = <<>>

(***************************************************************************)
(* C31: mirror audit always reaches the pool close.  Once run() waits in   *)
(* its select!, the pool is eventually closed: after the sweep has sent    *)
(* the finished signal, after SIGINT, and after the auditor task has       *)
(* returned early on a store error and dropped the finished sender.  A     *)
(* sweep that has ended never leaves run() waiting.                        *)
(***************************************************************************)
SweepEnded == auditor.pc \in {"finished", "exited"}

C31_ReachesClose ==
    /\ (main_task.pc = "select") ~> pool_closed
    /\ (SweepEnded /\ main_task.pc = "select") ~> (main_task.pc = "close")

\* The store has no identity, total_dids fails, the auditor task returns
\* without sending; finished_rx resolves and the pool is closed.
C31_Witness ==
    /\ auditor.pc = "exited"
    /\ auditor.err = "QueryReturnedNoRows"
    /\ ~auditor.finished
    /\ main_task = [pc |-> "done", by |-> "finished_rx"]

\* The sweep has sent the finished signal and the pool is closed.
C31_WitnessFinished ==
    /\ auditor.pc = "finished"
    /\ auditor.finished
    /\ Len(auditor.audits) = 2
    /\ main_task = [pc |-> "done", by |-> "finished_rx"]

\* SIGINT came first, while a batch task was running.
C31_WitnessSigint ==
    /\ main_task = [pc |-> "done", by |-> "ctrl_c"]
    /\ auditor.pc # "idle"
    /\ \E t \in 1..Len(auditor.auditing) : auditor.auditing[t].aborted

(***************************************************************************)
(* C32: on SIGINT the audits in flight are drained before the pool is      *)
(* closed.  The pool of the audit process is closed only when every batch  *)
(* task that was started has finished its identities; and the importer of  *)
(* the mirror process imports nothing once its pool is closed.             *)
(***************************************************************************)
Drained ==
    \A t \in 1..Len(auditor.auditing) :
        auditor.auditing[t].n = Len(auditor.auditing[t].dids)

C32_DrainBeforeClose ==
    [][main_task.pc = "close" /\ main_task'.pc = "done" /\ auditor.pc # "idle"
          => Drained]_vars

\* What does hold, of the importer: once the pool of the mirror process is
\* closed, no transaction begins and the store stays as it is; an import
\* that is asked for fails.
C32_NoImportAfterClose ==
    [][pool_closed =>
          /\ db' = db
          /\ tx = None /\ tx' = None
          /\ importer = "export" /\ importer' = "import" =>
                 IsSome(import_result') /\ ~import_result'[1].ok]_vars

\* SIGINT has come while a batch task had its identity still to audit: the
\* pool is closed, the task has returned None, the identity is not audited.
C32_Witness ==
    /\ pool_closed
    /\ main_task.by = "ctrl_c"
    /\ auditor.pc # "idle"
    /\ auditor.audits = <<>>
    /\ Len(auditor.auditing) = 1
    /\ auditor.auditing[1].aborted
    /\ auditor.auditing[1].n < Len(auditor.auditing[1].dids)

\* The importer has asked for an import on the closed pool and has ended.
C32_WitnessImporter ==
    /\ pool_closed
    /\ importer = "stopped"
    /\ Len(db.plc_log) < Len(Upstream)

(***************************************************************************)
(* C33: the export count is min(count, 1000) when count is given and 10    *)
(* when it is absent, and export returns no more entries than that:        *)
(* count=5000 returns at most 1000 entries, and all the matching entries   *)
(* are returned when they are no more than the bound.                      *)
(***************************************************************************)
CountBound(count) ==
    IF ~IsSome(count) THEN 10
    ELSE IF count[1] <= 1000 THEN count[1] ELSE 1000

C33_ExportCountClamp ==
    IsSome(response) =>
        LET r == response[1]
            n == Len(r.rows)
        IN  /\ bounded_count(r.call.params) = CountBound(r.call.params.count)
            /\ n <= CountBound(r.call.params.count)
            /\ n <= 1000
            /\ n = IF r.matching < CountBound(r.call.params.count)
                       THEN r.matching ELSE CountBound(r.call.params.count)

\* /export?count=5000 on a store with more than 5000 matching entries
\* returns 1000.
C33_Witness ==
    /\ IsSome(response)
    /\ response[1].call.params.count = Some(5000)
    /\ response[1].matching = 5001
    /\ Len(response[1].rows) = 1000

\* count absent, twelve entries match: ten are returned.
C33_WitnessAbsent ==
    /\ IsSome(response)
    /\ response[1].call.params.count = None
    /\ response[1].matching = 12
    /\ Len(response[1].rows) = 10

(***************************************************************************)
(* C34: the upstream export and the store never failing, every entry of    *)
(* the upstream log is eventually stored in the mirror, the entries that   *)
(* share their created_at with the last entry of a full page included      *)
(* (unless the process is stopped before).                                 *)
(***************************************************************************)
C34_EveryEntryStored == <>(AllStored(db, Upstream) \/ main_task.pc \in {"close", "done"})

\* A full page has ended on the first of two entries created at the same
\* time; the importer has then asked for what is after that time, has
\* caught up and sleeps, and the second of the two is not in the store.
C34_Witness ==
    /\ importer = "sleep"
    /\ main_task.pc = "ctrl_c"
    /\ after = Some(Upstream[5].created_at)
    /\ Upstream[3].created_at = Upstream[4].created_at
    /\ Stored(db, Upstream[3].cid)
    /\ ~Stored(db, Upstream[4].cid)
    /\ Stored(db, Upstream[5].cid)

\* The cursor is on the created_at of the last entry of a full page while
\* an entry with that created_at is not stored.
C34_WitnessCursor ==
    /\ importer = "export"
    /\ main_task.pc = "ctrl_c"
    /\ imported = ExportCount
    /\ after = Some(Upstream[3].created_at)
    /\ ~Stored(db, Upstream[4].cid)

\* From the empty store the pages end elsewhere and everything is stored.
C34_WitnessAll ==
    /\ importer = "sleep"
    /\ AllStored(db, Upstream)

(***************************************************************************)
(* C35: in every log for which validate returns Ok, each nullified entry   *)
(* whose prev is not nullified has a sibling (an entry with the same prev) *)
(* that is not nullified, comes later in the list, was created no more     *)
(* than 72 hours after it, and was signed with a rotation key of the       *)
(* shared prev of a strictly smaller index than the key that signed the    *)
(* nullified entry.                                                        *)
(***************************************************************************)
\* The list position of the entry that entry n names as its prev.
PrevOf(n) ==
    CHOOSE x \in 1..(n - 1) :
        /\ Some(entries[x].cid) = DeclaredPrev(entries[n])
        /\ FirstWithCid(x)

HasPrev(n) ==
    \E x \in 1..(n - 1) : Some(entries[x].cid) = DeclaredPrev(entries[n])

\* The smallest index under which a rotation key of entry x verifies the
\* signature of entry n; beyond all indices when none does.
SignerIndex(n, x) ==
    LET hits == VerifyingIndices(entries[n], KeyList(entries[x]))
    IN  IF hits = {} THEN Len(KeyList(entries[x])) + 1
        ELSE CHOOSE k \in hits : \A h \in hits : k <= h

NullifiedBy(n, s) ==
    /\ s > n
    /\ ~entries[s].nullified
    /\ DeclaredPrev(entries[s]) = DeclaredPrev(entries[n])
    /\ entries[s].created_at <= entries[n].created_at + 72 * 60 * 60
    /\ SignerIndex(s, PrevOf(n)) < SignerIndex(n, PrevOf(n))
    /\ SignerIndex(s, PrevOf(n)) <= Len(KeyList(entries[PrevOf(n)]))

C35_NullifiedHasSuccessor ==
    (pc = "done" /\ result = "Ok") =>
        \A n \in Positions :
            (entries[n].nullified /\ HasPrev(n) /\ ~entries[PrevOf(n)].nullified) =>
                \E s \in Positions : NullifiedBy(n, s)

\* validate has returned Ok for a log with a nullified entry whose prev is
\* active.
C35_Witness ==
    /\ pc = "done"
    /\ result = "Ok"
    /\ \E n \in Positions :
          /\ entries[n].nullified
          /\ HasPrev(n)
          /\ ~entries[PrevOf(n)].nullified
          /\ \E s \in Positions : NullifiedBy(n, s)

\* Two nullified siblings, both superseded by the active sibling that
\* follows them.
C35_WitnessTwo ==
    /\ pc = "done"
    /\ result = "Ok"
    /\ \E n, m, s \in Positions :
          /\ n < m
          /\ entries[n].nullified /\ entries[m].nullified
          /\ HasPrev(n) /\ HasPrev(m)
          /\ PrevOf(n) = PrevOf(m)
          /\ ~entries[PrevOf(n)].nullified
          /\ NullifiedBy(n, s) /\ NullifiedBy(m, s)

(***************************************************************************)
(* C36 as stated: validate returns the same sequence of errors, in the     *)
(* same order, whenever it is run on the same log, also when several       *)
(* parents have nullified children left pending at the end: whatever order *)
(* the final loop meets the parents in, the sequence is the one returned.  *)
(***************************************************************************)
C36_SameSequence ==
    [][pc = "loop" /\ pc' = "done" =>
          \A order \in Orders(DOMAIN active_graph) :
              errors' = errors \o settle_errors(entries, active_graph, order)]_vars

(***************************************************************************)
(* C36, amended.  Two runs of validate on the same log return the same     *)
(* errors up to the order of the parents in the final loop: the errors of  *)
(* the genesis check and of the main loop come first and in the same       *)
(* order, then, parent by parent, the pending children of each parent in   *)
(* the order of the list.  Each error occurs as often in one run as in the *)
(* other, and the sequences are equal when at most one parent has pending  *)
(* children.                                                               *)
(***************************************************************************)
PendingParents == {c \in DOMAIN active_graph : active_graph[c].nullified_children # <<>>}

\* The errors of the pending children of parent c, in the order they came.
PendingErrors(c) ==
    [k \in 1..Len(active_graph[c].nullified_children) |->
        IncorrectlyNullified(entries[active_graph[c].nullified_children[k].entry])]

C36_SameUpToParentOrder ==
    [][pc = "loop" /\ pc' = "done" =>
          LET tail == SubSeq(errors', Len(errors) + 1, Len(errors'))
          IN  /\ SubSeq(errors', 1, Len(errors)) = errors
              /\ \A c \in PendingParents : IsSubseq(PendingErrors(c), tail)
              /\ \A order \in Orders(DOMAIN active_graph) :
                    LET other == settle_errors(entries, active_graph, order)
                    IN  /\ \A e \in Range(other) \cup Range(tail) :
                              Occurrences(other, e) = Occurrences(tail, e)
                        /\ Cardinality(PendingParents) <= 1 => other = tail]_vars

\* validate has returned the errors of two parents with pending children;
\* met in the other order, the parents give another sequence.
C36_Witness ==
    /\ Done
    /\ result = "Err"
    /\ Cardinality(PendingParents) = 2
    /\ \E order \in Orders(DOMAIN active_graph) :
          LET other == settle_errors(entries, active_graph, order)
          IN  /\ Len(other) <= Len(errors)
              /\ SubSeq(errors, Len(errors) - Len(other) + 1, Len(errors)) # other

\* One parent with two pending children: one sequence only.
C36_WitnessOneParent ==
    /\ Done
    /\ result = "Err"
    /\ Cardinality(PendingParents) = 1
    /\ \E c \in PendingParents : Len(active_graph[c].nullified_children) = 2

(***************************************************************************)
(* C37: importing an entry whose cid is stored leaves the stored plc_log   *)
(* row and its satellite rows as they are, in every column: the nullified  *)
(* flag, the created_at and the sig the entry carries this time are not    *)
(* applied.  (What the statements do beyond that: no plc_log row is added; *)
(* a satellite row is added only under an authority, service or kind the   *)
(* entry has no row for, which takes an entry that lists more than the     *)
(* stored one; an entry with the stored operation data leaves the whole    *)
(* store as it is.)                                                        *)
(***************************************************************************)
\* The step imports, inside the transaction, an entry whose cid is stored.
ReimportsEntry ==
    /\ IsSome(tx)
    /\ IsSome(tx')
    /\ tx[1].n < Len(tx[1].entries)
    /\ tx'[1].n = tx[1].n + 1
    /\ Stored(tx[1].db, tx[1].entries[tx[1].n + 1].cid)

\* The entry of the registry with this cid.
Original(e) == CHOOSE u \in RegistryEntries : u.cid = e.cid /\ ~u.nullified

\* The entry carries the operation data of the original; its nullified
\* flag, created_at and sig may be others.
SameData(e) == [e.operation EXCEPT !.sig = Original(e).operation.sig] = Original(e).operation

SatelliteKeys(d, id) ==
    [rotation_keys |-> {r.authority : r \in {x \in d.rotation_keys : x.entry = id}},
     verification_methods |-> {r.service : r \in {x \in d.verification_methods : x.entry = id}},
     services |-> {r.kind : r \in {x \in d.services : x.entry = id}}]

C37_ReimportLeavesRow ==
    [][ReimportsEntry =>
          LET e  == tx[1].entries[tx[1].n + 1]
              d  == tx[1].db
              d2 == tx'[1].db
          IN  /\ d2.plc_log = d.plc_log
              /\ d.rotation_keys \subseteq d2.rotation_keys
              /\ d.verification_methods \subseteq d2.verification_methods
              /\ d.services \subseteq d2.services
              /\ \A id \in 1..Len(d.plc_log) :
                    /\ SatelliteKeys(d, id) # SatelliteKeys(d2, id) => id = EntryId(d, e.cid)
                    /\ Cardinality({r \in d2.rotation_keys : r.entry = id})
                          = Cardinality(SatelliteKeys(d2, id).rotation_keys)
              /\ SameData(e) => d2 = d]_vars

\* The entry has come again with another created_at and the import has
\* committed: import returns that created_at, no row holds it.
C37_Witness ==
    /\ tx = None
    /\ IsSome(import_result)
    /\ import_result[1].ok
    /\ import_result[1].value = Some(<<Datetime(9, 0), 1>>)
    /\ db.plc_log # <<>>
    /\ \A k \in 1..Len(db.plc_log) : db.plc_log[k].created_at # as_str(Datetime(9, 0))

\* The entry has come again as nullified, with the stored row active.
C37_WitnessNullified ==
    /\ IsSome(tx)
    /\ tx[1].n = 1
    /\ tx[1].entries[1].nullified
    /\ Stored(db, tx[1].entries[1].cid)
    /\ ~tx[1].db.plc_log[EntryId(db, tx[1].entries[1].cid)].nullified
    /\ tx[1].db = db

\* The entry has come again with another signature.
C37_WitnessSig ==
    /\ IsSome(tx)
    /\ tx[1].n = 1
    /\ Stored(db, tx[1].entries[1].cid)
    /\ tx[1].entries[1].operation.sig = Sig("k1", "unpadded", TRUE)
    /\ tx[1].db.plc_log[EntryId(db, tx[1].entries[1].cid)].sig # Sig("k1", "unpadded", TRUE)
    /\ tx[1].db = db

\* The entry has come again with one more rotation key: a row is added to
\* rotation_keys.
C37_WitnessRegrown ==
    /\ IsSome(tx)
    /\ tx[1].n = 1
    /\ Stored(db, tx[1].entries[1].cid)
    /\ tx[1].db.plc_log = db.plc_log
    /\ tx[1].db.rotation_keys # db.rotation_keys


(***************************************************************************)
(* C38.  The mirror's export with the after parameter absent returns the   *)
(* earliest bounded_count stored entries in created_at order, as the       *)
(* registry's /export does for the importer's first request: as many       *)
(* entries as the store holds up to the count, in non-decreasing           *)
(* created_at order, none of them later than a stored entry left out.      *)
(***************************************************************************)
ExportInitialReturns ==
    /\ Assembles
    /\ reader.call.name = "export"
    /\ ~IsSome(reader.call.params.after)
    /\ response'[1].result.ok

C38_ExportWithoutAfter ==
    [][ExportInitialReturns =>
          LET n   == bounded_count(reader.call.params)
              out == response'[1].result.value
          IN  /\ Len(out) = IF Len(db.plc_log) < n THEN Len(db.plc_log) ELSE n
              /\ \A a \in 1..Len(out), b \in 1..Len(out) :
                    a < b => ~IsLater(TRUE, out[a].created_at, out[b].created_at)
              /\ \A at \in StoredAt(db) :
                    (\A k \in 1..Len(out) : out[k].created_at # at)
                        => \A k \in 1..Len(out) :
                               ~IsLater(TRUE, out[k].created_at, at)]_vars

\* An export without after has returned no entry from a store that holds
\* entries.
C38_Witness ==
    /\ IsSome(response)
    /\ response[1].call.name = "export"
    /\ response[1].call.params = ExportParams(Some(2), None)
    /\ Len(db.plc_log) >= 2
    /\ response[1].result.ok
    /\ response[1].result.value = <<>>

\* What the importer's first request gets from the registry: the first
\* entries of the log.
C38_WitnessUpstream ==
    /\ importer = "import"
    /\ after = None
    /\ IsSome(tx)
    /\ tx[1].entries = SubSeq(Upstream, 1, ExportCount)


(***************************************************************************)
(* C39.  For the routes /:did/log, /:did/log/audit, /:did/log/last and     *)
(* /:did/data, a response with status 200 carries the success body, and a  *)
(* response whose body is an error {message: ...} (a store failure or a    *)
(* CID mismatch on reassembly included) has a status outside 200..299.     *)
(***************************************************************************)
LogAndDataRoutes == {"/:did/log", "/:did/log/audit", "/:did/log/last", "/:did/data"}

\* The response of a handler of one of these routes.
Answered(route) ==
    /\ IsSome(response)
    /\ "http" \in DOMAIN response[1]
    /\ response[1].call.route = route

IsErrorBody(body) == "message" \in DOMAIN body

C39_ErrorStatus ==
    \A route \in LogAndDataRoutes :
        Answered(route) =>
            LET http == response[1].http
            IN  /\ http.status = OK => ~IsErrorBody(http.body)
                /\ IsErrorBody(http.body) => http.status \notin 200..299

\* The audit log of the second identity is asked for when its update,
\* which carries an unknown field, is stored: 200 with an error body.
C39_Witness ==
    /\ Answered("/:did/log/audit")
    /\ response[1].call.did = BobDid
    /\ Cardinality(rows_of_did(db, BobDid)) = 2
    /\ response[1].http = [status |-> OK, body |-> [message |-> "CID mismatch"]]

\* The same for /:did/log and /:did/log/last.
C39_WitnessLog ==
    /\ Answered("/:did/log")
    /\ response[1].http = [status |-> OK, body |-> [message |-> "CID mismatch"]]

C39_WitnessLast ==
    /\ Answered("/:did/log/last")
    /\ response[1].http = [status |-> OK, body |-> [message |-> "CID mismatch"]]

\* The errors the handlers raise themselves come with 404, and a log that
\* reassembles comes with 200.
C39_WitnessNotFound ==
    /\ Answered("/:did/log")
    /\ response[1].http = [status |-> NOT_FOUND, body |-> [message |-> "DID not registered"]]

C39_WitnessOk ==
    /\ Answered("/:did/log/audit")
    /\ response[1].call.did = AliceDid
    /\ response[1].http.status = OK
    /\ ~IsErrorBody(response[1].http.body)
    /\ Len(response[1].http.body.ok) = 3


(***************************************************************************)
(* C40.  get_audit_log returns the entries of a DID in an order in which   *)
(* every entry comes after the entry its prev names, whenever no stored    *)
(* entry was created before its prev (created at the same instant          *)
(* included): validating what was read never finds a prev among the later  *)
(* entries.                                                                *)
(***************************************************************************)
AuditLogReturns ==
    /\ Assembles
    /\ reader.call.name = "get_audit_log"
    /\ response'[1].result.ok

\* No entry of the log was created before the entry its prev names.
NotBeforePrev(log) ==
    \A a \in 1..Len(log), b \in 1..Len(log) :
        log[a].operation.prev = Some(log[b].cid)
            => log[a].created_at.dt >= log[b].created_at.dt

\* Every entry of the log finds its prev, if the log holds it, before it.
PrevComesFirst(log) ==
    \A n \in 1..Len(log) :
        LET located == locate_prev(log, n)
        IN  located.ok \/ located.err.kind # "PrevReferencesFuture"

C40_AuditLogOrder ==
    [][AuditLogReturns /\ NotBeforePrev(response'[1].result.value)
          => PrevComesFirst(response'[1].result.value)]_vars

\* The audit log of the first identity has been read with its update
\* before the genesis operation the update follows.
C40_Witness ==
    /\ IsSome(response)
    /\ response[1].call = [name |-> "get_audit_log", did |-> AliceDid]
    /\ response[1].result.ok
    /\ Len(response[1].result.value) = 3
    /\ response[1].result.value[1].cid = cid(AliceUpdateOp)
    /\ response[1].result.value[2].cid = cid(AliceGenesisOp)
    /\ locate_prev(response[1].result.value, 1) =
           [ok |-> FALSE,
            err |-> PrevReferencesFuture(cid(AliceUpdateOp), cid(AliceGenesisOp))]

\* The same log read in the order of the registry.
C40_WitnessUpstreamOrder ==
    /\ IsSome(response)
    /\ response[1].call = [name |-> "get_audit_log", did |-> AliceDid]
    /\ response[1].result.ok
    /\ response[1].result.value =
           <<UpstreamTied[1], UpstreamTied[2], UpstreamTied[4]>>

====
